---- MODULE Spec2Model ----
(***************************************************************************)
(* vault-kit: the in-memory link graph of a vault of Markdown notes        *)
(* (src/src/graph.ts), its filter and pagination layer (src/src/filter.ts),*)
(* the search operations (search.ts) and the operations that read or       *)
(* rebuild the graph.                                                      *)
(*                                                                         *)
(* A string is a sequence of characters; a character is a one-symbol       *)
(* atom.  "e_acute" is U+00E9, "E_acute" U+00C9, "acute" the combining     *)
(* accent U+0301 and "tab" U+0009.                                         *)
(***************************************************************************)
EXTENDS Integers, Sequences, FiniteSets, TLC

VARIABLES
  disk,        \* the vault on disk: path -> "absent", "unreadable" or a content
  writes,      \* number of writes the external writer has made
  notes,       \* GraphState.notes: key -> Note
  notesOrder,  \* insertion order of the keys of GraphState.notes (a JS Map)
  forward,     \* GraphState.forward: key -> targets, in insertion order
  backward,    \* GraphState.backward: target -> set of source keys
  missing,     \* GraphState.missing: target without a note -> source keys
  fuzzyIndex,  \* GraphState.fuzzyIndex: fuzzy form -> key
  published,   \* the graph as the last completed mutation produced it
  lastMut,     \* the last mutation that completed
  input,       \* the argument drawn for a pure function
  op,          \* the request being served
  res          \* its result

graphVars == <<notes, notesOrder, forward, backward, missing, fuzzyIndex>>
vars == <<disk, writes, notes, notesOrder, forward, backward, missing,
          fuzzyIndex, published, lastMut, input, op, res>>

----------------------------------------------------------------------------
(* Bounds *)

MaxStrLen == 3
MaxWrites == 1
MaxDepth == 2
MaxItems == 5
MaxOffset == 5
MaxLimit == 3

----------------------------------------------------------------------------
(* Characters and strings *)

Upper == {"A", "B", "D", "N", "W", "Z", "E_acute"}

\* String.prototype.toLowerCase, one character
LowerChar(c) ==
  CASE c = "A" -> "a"
    [] c = "B" -> "b"
    [] c = "D" -> "d"
    [] c = "N" -> "n"
    [] c = "W" -> "w"
    [] c = "Z" -> "z"
    [] c = "E_acute" -> "e_acute"
    [] OTHER -> c

\* the white space String.prototype.trim removes
IsWhiteSpace(c) == c \in {" ", "tab"}

\* String.prototype.normalize("NFD"), one character
NFDChar(c) ==
  CASE c = "e_acute" -> <<"e", "acute">>
    [] c = "E_acute" -> <<"E", "acute">>
    [] OTHER -> <<c>>

\* the complement of /[^ -~]/
InAsciiRange(c) == c \notin {"e_acute", "E_acute", "acute", "tab"}

RECURSIVE MapChars(_, _)
MapChars(F(_), s) ==
  IF s = <<>> THEN <<>> ELSE <<F(Head(s))>> \o MapChars(F, Tail(s))

RECURSIVE FlatMapChars(_, _)
FlatMapChars(F(_), s) ==
  IF s = <<>> THEN <<>> ELSE F(Head(s)) \o FlatMapChars(F, Tail(s))

RECURSIVE FilterChars(_, _)
FilterChars(P(_), s) ==
  IF s = <<>> THEN <<>>
  ELSE IF P(Head(s)) THEN <<Head(s)>> \o FilterChars(P, Tail(s))
       ELSE FilterChars(P, Tail(s))

RECURSIVE TrimStart(_)
TrimStart(s) ==
  IF s # <<>> /\ IsWhiteSpace(Head(s)) THEN TrimStart(Tail(s)) ELSE s

RECURSIVE TrimEnd(_)
TrimEnd(s) ==
  IF s # <<>> /\ IsWhiteSpace(s[Len(s)])
  THEN TrimEnd(SubSeq(s, 1, Len(s) - 1)) ELSE s

trim(s) == TrimEnd(TrimStart(s))

toLowerCase(s) == MapChars(LowerChar, s)

IsDashOrUnderscore(c) == c \in {"-", "_"}
NotDashOrUnderscore(c) == ~IsDashOrUnderscore(c)

startsWith(s, p) == Len(p) <= Len(s) /\ SubSeq(s, 1, Len(p)) = p

endsWith(s, p) ==
  Len(p) <= Len(s) /\ SubSeq(s, Len(s) - Len(p) + 1, Len(s)) = p

\* graph.ts normalize: trim, then lowercase
normalize(name) == toLowerCase(trim(name))

NotDashUnderscoreOrSpace(c) == c \notin {"-", "_", " "}

\* normalizeFuzzy stripping spaces along with - and _
normalizeFuzzyNoSpaces(name) ==
  FilterChars(InAsciiRange,
    FlatMapChars(NFDChar,
      FilterChars(NotDashUnderscoreOrSpace, toLowerCase(trim(name)))))

\* graph.ts normalizeFuzzy: trim, lowercase, strip - and _, NFD, keep
\* printable ASCII
normalizeFuzzy(name) ==
  FilterChars(InAsciiRange,
    FlatMapChars(NFDChar,
      FilterChars(NotDashOrUnderscore, toLowerCase(trim(name)))))

NormAlphabet == {"A", "a", "-", "_", " ", "e_acute", "tab"}

RECURSIVE StringsUpTo(_, _)
StringsUpTo(alphabet, n) ==
  IF n = 0 THEN {<<>>}
  ELSE LET shorter == StringsUpTo(alphabet, n - 1)
       IN shorter \cup {Append(s, c) : s \in shorter, c \in alphabet}

NoRequest == [name |-> "none"]
NoResult == [kind |-> "none"]
Null == [null |-> TRUE]

----------------------------------------------------------------------------
(* Maps and ordered sets *)

EmptyMap == [k \in {} |-> {}]

Put(m, k, v) == [x \in DOMAIN m \cup {k} |-> IF x = k THEN v ELSE m[x]]

\* the set stored under k, or a new empty one
GetSet(m, k) == IF k \in DOMAIN m THEN m[k] ELSE {}

Range(s) == {s[i] : i \in DOMAIN s}

\* new Set(list): first occurrences, in order
RECURSIVE Dedup(_)
Dedup(s) ==
  IF s = <<>> THEN <<>>
  ELSE LET front == Dedup(SubSeq(s, 1, Len(s) - 1))
           last == s[Len(s)]
       IN IF last \in Range(front) THEN front ELSE Append(front, last)

\* Array.prototype.sort with comparator Less: stable insertion sort
RECURSIVE SortBy(_, _)
SortBy(Less(_, _), s) ==
  IF s = <<>> THEN <<>>
  ELSE LET front == SortBy(Less, SubSeq(s, 1, Len(s) - 1))
           x == s[Len(s)]
           after == {i \in DOMAIN front : Less(x, front[i])}
           pos == IF after = {} THEN Len(front) + 1
                  ELSE CHOOSE i \in after : \A j \in after : i <= j
       IN SubSeq(front, 1, pos - 1) \o <<x>> \o SubSeq(front, pos, Len(front))

----------------------------------------------------------------------------
(* The vault on disk *)

Paths == 1 .. 4

\* vault.ts scanVault: the order in which the files are listed
ScanOrder == <<1, 2, 3, 4>>

NoteWithDashes ==
  <<"N", "o", "t", "e", "W", "i", "t", "h", "D", "a", "s", "h", "e", "s">>
Note_With_Dashes ==
  <<"N", "o", "t", "e", "_", "W", "i", "t", "h", "_",
    "D", "a", "s", "h", "e", "s">>
Note_Dash_With_Dashes ==
  <<"N", "o", "t", "e", "-", "W", "i", "t", "h", "-",
    "D", "a", "s", "h", "e", "s">>
note_with_dashes_spaced ==
  <<"n", "o", "t", "e", " ", "w", "i", "t", "h", " ",
    "d", "a", "s", "h", "e", "s">>
NoteZ == <<"N", "o", "t", "e", "Z">>

\* the file stem
FileName(p) ==
  CASE p = 1 -> NoteWithDashes
    [] p = 2 -> Note_With_Dashes
    [] p = 3 -> <<"B">>
    [] OTHER -> <<"b">>

FileFolder(p) == IF p = 3 THEN <<"j">> ELSE <<>>

\* the path below the vault root: path.slice(vaultPath.length + 1)
FilePath(p) ==
  (IF FileFolder(p) = <<>> THEN <<>> ELSE FileFolder(p) \o <<"/">>)
    \o FileName(p) \o <<".", "m", "d">>

Wikilink(n, e) == [name |-> n, embed |-> e]

\* the target of an embed of a file that is not a note
ImageFile == <<"z", ".", "p">>

Absent == [status |-> "absent", wikilinks |-> <<>>]
Unreadable == [status |-> "unreadable", wikilinks |-> <<>>]

\* the text of a link, of an inline tag and of a frontmatter block
LinkText(wl) ==
  (IF wl.embed THEN <<"!">> ELSE <<>>) \o <<"[", "[">> \o wl.name
    \o <<"]", "]">>

TagText(t) == <<"#">> \o t

FrontmatterLines(fmTags) ==
  IF fmTags = <<>> THEN <<>>
  ELSE <<<<"-", "-", "-">>, <<"t", "a", "g", "s", ":">>>>
         \o [i \in DOMAIN fmTags |-> <<"-", " ">> \o fmTags[i]]
         \o <<<<"-", "-", "-">>>>

\* a readable file: its lines (the text ends with a line break, so the last
\* line is empty) and what the extractors of markdown.ts find in them
File(links, fmTags, inTags, mtime, text) ==
  [status |-> "file", wikilinks |-> links, frontmatterTags |-> fmTags,
   inlineTags |-> inTags, mtime |-> mtime,
   lines |-> FrontmatterLines(fmTags)
               \o [i \in DOMAIN links |-> LinkText(links[i])]
               \o [i \in DOMAIN inTags |-> TagText(inTags[i])]
               \o text \o <<<<>>>>]

Content(i) ==
  CASE i = 0 -> File(<<>>, <<>>, <<>>, 1, <<>>)
    [] i = 1 -> File(<<Wikilink(<<"b">>, FALSE)>>,
                     <<<<"A">>>>, <<<<"b">>>>, 2, <<<<"a", " ", "B">>>>)
    [] i = 2 -> File(<<Wikilink(Note_With_Dashes, TRUE),
                       Wikilink(NoteZ, FALSE)>>,
                     <<>>, <<<<"a">>>>, 3, <<<<" ", "a", "b", " ">>>>)
    [] i = 3 -> File(<<Wikilink(NoteWithDashes, FALSE),
                       Wikilink(<<"B">>, TRUE),
                       Wikilink(<<"b">>, FALSE)>>,
                     <<>>, <<>>, 2, <<<<"b", " ", "z">>>>)
    [] OTHER -> File(<<Wikilink(ImageFile, TRUE),
                       Wikilink(NoteZ, FALSE)>>,
                     <<<<"b">>>>, <<>>, 1, <<<<"a", " ", "z">>>>)

Contents == {Content(i) : i \in 0 .. 3}

\* vault.ts readNote
readNote(d, p) ==
  [path |-> FilePath(p), name |-> FileName(p), wikilinks |-> d[p].wikilinks,
   frontmatterTags |-> d[p].frontmatterTags,
   inlineTags |-> d[p].inlineTags, mtime |-> d[p].mtime,
   lines |-> d[p].lines]

\* vault.ts scanVault
scanVault(d) == SelectSeq(ScanOrder, LAMBDA p : d[p].status # "absent")

----------------------------------------------------------------------------
(* buildGraph *)

RECURSIVE MapSeq(_, _)
MapSeq(F(_), s) ==
  IF s = <<>> THEN <<>> ELSE <<F(Head(s))>> \o MapSeq(F, Tail(s))

LinkKey(wl) == normalize(wl.name)

\* new Set(note.wikilinks.map((wl) => normalize(wl.name)))
TargetsOf(note) == Dedup(MapSeq(LinkKey, note.wikilinks))

\* ReadNotes that stops reading at the first file that cannot be read
RECURSIVE ReadNotesStopsAtUnreadable(_, _, _)
ReadNotesStopsAtUnreadable(d, paths, acc) ==
  IF paths = <<>> THEN acc
  ELSE LET p == Head(paths) IN
       IF d[p].status = "file"
       THEN LET note == readNote(d, p)
                key == normalize(note.name)
            IN ReadNotesStopsAtUnreadable(d, Tail(paths),
                 [notes |-> Put(acc.notes, key, note),
                  order |-> IF key \in DOMAIN acc.notes THEN acc.order
                            ELSE Append(acc.order, key)])
       ELSE acc

\* ReadNotes that keeps the first note read under a key
RECURSIVE ReadNotesKeepsFirst(_, _, _)
ReadNotesKeepsFirst(d, paths, acc) ==
  IF paths = <<>> THEN acc
  ELSE LET p == Head(paths) IN
       IF d[p].status = "file"
       THEN LET note == readNote(d, p)
                key == normalize(note.name)
            IN ReadNotesKeepsFirst(d, Tail(paths),
                 IF key \in DOMAIN acc.notes THEN acc
                 ELSE [notes |-> Put(acc.notes, key, note),
                       order |-> Append(acc.order, key)])
       ELSE ReadNotesKeepsFirst(d, Tail(paths), acc)

\* graph.ts 30-37: the loop over the scanned paths; acc = [notes, order]
RECURSIVE ReadNotes(_, _, _)
ReadNotes(d, paths, acc) ==
  IF paths = <<>> THEN acc
  ELSE LET p == Head(paths) IN
       IF d[p].status = "file"
       THEN LET note == readNote(d, p)
                key == normalize(note.name)
            IN ReadNotes(d, Tail(paths),
                 [notes |-> Put(acc.notes, key, note),
                  order |-> IF key \in DOMAIN acc.notes THEN acc.order
                            ELSE Append(acc.order, key)])
       ELSE ReadNotes(d, Tail(paths), acc)   \* skip unreadable files

\* AddTargets without the test `!notes.has(targetKey)`
RECURSIVE AddTargetsAlwaysMissing(_, _, _, _)
AddTargetsAlwaysMissing(ns, sourceKey, targets, acc) ==
  IF targets = <<>> THEN acc
  ELSE LET targetKey == Head(targets)
           b == Put(acc.backward, targetKey,
                    GetSet(acc.backward, targetKey) \cup {sourceKey})
           m == Put(acc.missing, targetKey,
                    GetSet(acc.missing, targetKey) \cup {sourceKey})
       IN AddTargetsAlwaysMissing(ns, sourceKey, Tail(targets),
                                  [backward |-> b, missing |-> m])

\* graph.ts 68-76: the loop over one note's targets; acc = [backward, missing]
RECURSIVE AddTargets(_, _, _, _)
AddTargets(ns, sourceKey, targets, acc) ==
  IF targets = <<>> THEN acc
  ELSE LET targetKey == Head(targets)
           b == Put(acc.backward, targetKey,
                    GetSet(acc.backward, targetKey) \cup {sourceKey})
           m == IF targetKey \notin DOMAIN ns
                THEN Put(acc.missing, targetKey,
                         GetSet(acc.missing, targetKey) \cup {sourceKey})
                ELSE acc.missing
       IN AddTargets(ns, sourceKey, Tail(targets),
                     [backward |-> b, missing |-> m])

\* graph.ts 64-77: the loop over the notes; acc = [forward, backward, missing]
RECURSIVE AdjacencyLoop(_, _, _)
AdjacencyLoop(ns, keys, acc) ==
  IF keys = <<>> THEN acc
  ELSE LET sourceKey == Head(keys)
           targets == TargetsOf(ns[sourceKey])
           bm == AddTargets(ns, sourceKey, targets,
                            [backward |-> acc.backward, missing |-> acc.missing])
       IN AdjacencyLoop(ns, Tail(keys),
            [forward |-> Put(acc.forward, sourceKey, targets),
             backward |-> bm.backward,
             missing |-> bm.missing])

buildAdjacency(ns, order) ==
  AdjacencyLoop(ns, order,
    [forward |-> EmptyMap, backward |-> EmptyMap, missing |-> EmptyMap])

\* graph.ts 41-45: first-write-wins
RECURSIVE FuzzyLoop(_, _, _)
FuzzyLoop(ns, keys, fi) ==
  IF keys = <<>> THEN fi
  ELSE LET key == Head(keys)
           fk == normalizeFuzzy(ns[key].name)
       IN FuzzyLoop(ns, Tail(keys),
            IF fk \in DOMAIN fi THEN fi ELSE Put(fi, fk, key))

buildGraph(d) ==
  LET r == ReadNotes(d, scanVault(d), [notes |-> EmptyMap, order |-> <<>>])
      adj == buildAdjacency(r.notes, r.order)
  IN [notes |-> r.notes,
      notesOrder |-> r.order,
      forward |-> adj.forward,
      backward |-> adj.backward,
      missing |-> adj.missing,
      fuzzyIndex |-> FuzzyLoop(r.notes, r.order, EmptyMap)]

\* the GraphState object the operations are handed
state ==
  [notes |-> notes, notesOrder |-> notesOrder, forward |-> forward,
   backward |-> backward, missing |-> missing, fuzzyIndex |-> fuzzyIndex]

----------------------------------------------------------------------------
(* resolve *)

\* graph.ts fuzzyResolve; `if (key)` takes the empty key for a miss
fuzzyResolve(name, st) ==
  LET fk == normalizeFuzzy(name) IN
  IF fk \in DOMAIN st.fuzzyIndex /\ st.fuzzyIndex[fk] # <<>>
  THEN IF st.fuzzyIndex[fk] \in DOMAIN st.notes
       THEN st.notes[st.fuzzyIndex[fk]] ELSE Null
  ELSE Null

\* resolve trying the fuzzy index before the exact key
resolveFuzzyFirst(name, st) ==
  LET key == normalize(name)
      fuzzy == fuzzyResolve(name, st)
  IN IF fuzzy # Null THEN fuzzy
     ELSE IF key \in DOMAIN st.notes THEN st.notes[key] ELSE Null

resolve(name, st) ==
  LET key == normalize(name) IN
  IF key \in DOMAIN st.notes THEN st.notes[key] ELSE fuzzyResolve(name, st)

----------------------------------------------------------------------------
(* refreshNote: the single-note upsert *)

\* the old contributions of key leave the referrer sets of its old targets;
\* acc = [backward, missing]
RECURSIVE RemoveContributions(_, _, _)
RemoveContributions(targets, key, acc) ==
  IF targets = <<>> THEN acc
  ELSE LET t == Head(targets)
           b == IF t \in DOMAIN acc.backward
                THEN [acc.backward EXCEPT ![t] = @ \ {key}]
                ELSE acc.backward
           m == IF t \in DOMAIN acc.missing
                THEN [acc.missing EXCEPT ![t] = @ \ {key}]
                ELSE acc.missing
       IN RemoveContributions(Tail(targets), key,
                              [backward |-> b, missing |-> m])

\* refreshNote that stores the note without its adjacency
refreshNoteNotesOnly(p, d, st) ==
  LET note == readNote(d, p)
      key == normalize(note.name)
  IN [st EXCEPT !.notes = Put(st.notes, key, note),
                !.notesOrder = IF key \in DOMAIN st.notes THEN @
                               ELSE Append(@, key)]

\* refreshNote that adds the new contributions to the old ones
refreshNoteKeepsOld(p, d, st) ==
  LET note == readNote(d, p)
      key == normalize(note.name)
      fk == normalizeFuzzy(note.name)
      ns == Put(st.notes, key, note)
      targets == TargetsOf(note)
      bm == AddTargets(ns, key, targets,
                       [backward |-> st.backward, missing |-> st.missing])
  IN [notes |-> ns,
      notesOrder |-> IF key \in DOMAIN st.notes THEN st.notesOrder
                     ELSE Append(st.notesOrder, key),
      forward |-> Put(st.forward, key, targets),
      backward |-> bm.backward,
      missing |-> bm.missing,
      fuzzyIndex |-> IF fk \in DOMAIN st.fuzzyIndex THEN st.fuzzyIndex
                     ELSE Put(st.fuzzyIndex, fk, key)]

\* refreshNote that empties the referrer sets of the old targets
refreshNoteDropsReferrers(p, d, st) ==
  LET note == readNote(d, p)
      key == normalize(note.name)
      fk == normalizeFuzzy(note.name)
      old == IF key \in DOMAIN st.forward THEN Range(st.forward[key]) ELSE {}
      cleared ==
        [backward |-> [t \in DOMAIN st.backward |->
                         IF t \in old THEN {} ELSE st.backward[t]],
         missing |-> [t \in DOMAIN st.missing |->
                        IF t \in old THEN {} ELSE st.missing[t]]]
      ns == Put(st.notes, key, note)
      targets == TargetsOf(note)
      bm == AddTargets(ns, key, targets, cleared)
  IN [notes |-> ns,
      notesOrder |-> IF key \in DOMAIN st.notes THEN st.notesOrder
                     ELSE Append(st.notesOrder, key),
      forward |-> Put(st.forward, key, targets),
      backward |-> bm.backward,
      missing |-> bm.missing,
      fuzzyIndex |-> IF fk \in DOMAIN st.fuzzyIndex THEN st.fuzzyIndex
                     ELSE Put(st.fuzzyIndex, fk, key)]

\* re-read the file at path p and replace its note and its adjacency
refreshNote(p, d, st) ==
  LET note == readNote(d, p)
      key == normalize(note.name)
      fk == normalizeFuzzy(note.name)
      cleared == IF key \in DOMAIN st.forward
                 THEN RemoveContributions(st.forward[key], key,
                        [backward |-> st.backward, missing |-> st.missing])
                 ELSE [backward |-> st.backward, missing |-> st.missing]
      ns == Put(st.notes, key, note)
      targets == TargetsOf(note)
      bm == AddTargets(ns, key, targets, cleared)
  IN [notes |-> ns,
      notesOrder |-> IF key \in DOMAIN st.notes THEN st.notesOrder
                     ELSE Append(st.notesOrder, key),
      forward |-> Put(st.forward, key, targets),
      backward |-> bm.backward,
      missing |-> bm.missing,
      fuzzyIndex |-> IF fk \in DOMAIN st.fuzzyIndex THEN st.fuzzyIndex
                     ELSE Put(st.fuzzyIndex, fk, key)]

----------------------------------------------------------------------------
(* String.prototype.localeCompare: letters by base letter first, then *)
(* lower case before upper case; punctuation sorts before letters      *)

CollationOrder ==
  <<"tab", " ", "_", "-", ".", "/", "a", "b", "d", "e", "h", "i", "j", "m",
    "n", "o", "s", "t", "w", "z">>

BaseLetter(c) ==
  LET l == LowerChar(c) IN IF l = "e_acute" THEN "e" ELSE l

PrimaryWeight(c) ==
  LET b == BaseLetter(c)
      at == {i \in DOMAIN CollationOrder : CollationOrder[i] = b}
  IN IF at = {} THEN 0 ELSE CHOOSE i \in at : TRUE

TertiaryWeight(c) == IF c \in Upper THEN 1 ELSE 0

\* -1, 0 or 1 by the first difference of the weights W
RECURSIVE CompareWeights(_, _, _)
CompareWeights(W(_), a, b) ==
  IF a = <<>> /\ b = <<>> THEN 0
  ELSE IF a = <<>> THEN -1
  ELSE IF b = <<>> THEN 1
  ELSE IF W(Head(a)) < W(Head(b)) THEN -1
  ELSE IF W(Head(a)) > W(Head(b)) THEN 1
  ELSE CompareWeights(W, Tail(a), Tail(b))

localeCompare(a, b) ==
  LET primary == CompareWeights(PrimaryWeight, a, b)
  IN IF primary # 0 THEN primary
     ELSE CompareWeights(TertiaryWeight, a, b)

----------------------------------------------------------------------------
(* traverse *)

\* filter.ts ensureTrailingSlash
ensureTrailingSlash(path) ==
  IF endsWith(path, <<"/">>) THEN path ELSE path \o <<"/">>

\* sourceNote.wikilinks.find((w) => normalize(w.name) === target)
FindLink(links, target) ==
  LET at == {i \in DOMAIN links : normalize(links[i].name) = target}
  IN IF at = {} THEN Null
     ELSE links[CHOOSE i \in at : \A j \in at : i <= j]

\* NeighborLoop that records a target without a note every time it is met
RECURSIVE NeighborLoopRepeats(_, _, _, _, _, _)
NeighborLoopRepeats(targets, sourceNote, depth, st, excludePrefixes, acc) ==
  IF targets = <<>> THEN acc
  ELSE
    LET target == Head(targets)
        rest == Tail(targets)
    IN
    IF target \notin DOMAIN st.notes
    THEN NeighborLoopRepeats(rest, sourceNote, depth, st,
           excludePrefixes,
           [acc EXCEPT !.missingFound = Append(@, target)])
    ELSE IF /\ Len(excludePrefixes) > 0
            /\ \E i \in DOMAIN excludePrefixes :
                  startsWith(st.notes[target].path, excludePrefixes[i])
    THEN NeighborLoopRepeats(rest, sourceNote, depth, st,
           excludePrefixes, acc)
    ELSE
      LET wl == FindLink(sourceNote.wikilinks, target)
          lt == IF target \notin DOMAIN acc.linkTypes /\ wl # Null
                THEN Put(acc.linkTypes, target,
                         IF wl.embed THEN "embed" ELSE "wikilink")
                ELSE acc.linkTypes
      IN NeighborLoopRepeats(rest, sourceNote, depth, st,
           excludePrefixes,
           [acc EXCEPT !.linkTypes = lt,
                       !.queue = Append(@, <<target, depth + 1>>)])

\* graph.ts 434-454: the loop over the targets of one expanded note;
\* acc = [queue, visited, visitedOrder, missingFound, linkTypes]
RECURSIVE NeighborLoop(_, _, _, _, _, _)
NeighborLoop(targets, sourceNote, depth, st, excludePrefixes, acc) ==
  IF targets = <<>> THEN acc
  ELSE
    LET target == Head(targets)
        rest == Tail(targets)
    IN
    IF target \notin DOMAIN st.notes
    THEN NeighborLoop(rest, sourceNote, depth, st, excludePrefixes,
           [acc EXCEPT !.missingFound =
              IF target \in Range(@) THEN @ ELSE Append(@, target)])
    ELSE IF /\ Len(excludePrefixes) > 0
            /\ \E i \in DOMAIN excludePrefixes :
                  startsWith(st.notes[target].path, excludePrefixes[i])
    THEN NeighborLoop(rest, sourceNote, depth, st, excludePrefixes, acc)
    ELSE
      LET wl == FindLink(sourceNote.wikilinks, target)
          lt == IF target \notin DOMAIN acc.linkTypes /\ wl # Null
                THEN Put(acc.linkTypes, target,
                         IF wl.embed THEN "embed" ELSE "wikilink")
                ELSE acc.linkTypes
      IN NeighborLoop(rest, sourceNote, depth, st, excludePrefixes,
           [acc EXCEPT !.linkTypes = lt,
                       !.queue = Append(@, <<target, depth + 1>>)])

\* processNeighbors that enqueues the targets in excluded folders as well
processNeighborsNoExclusion(sourceKey, depth, st, excludePrefixes, acc) ==
  IF sourceKey \notin DOMAIN st.notes THEN acc
  ELSE IF sourceKey \notin DOMAIN st.forward THEN acc
  ELSE NeighborLoop(st.forward[sourceKey], st.notes[sourceKey], depth, st,
                    <<>>, acc)

\* graph.ts processNeighbors
processNeighbors(sourceKey, depth, st, excludePrefixes, acc) ==
  IF sourceKey \notin DOMAIN st.notes THEN acc
  ELSE IF sourceKey \notin DOMAIN st.forward THEN acc
  ELSE NeighborLoop(st.forward[sourceKey], st.notes[sourceKey], depth, st,
                    excludePrefixes, acc)

\* BfsLoop expanding at depth <= maxDepth
RECURSIVE BfsLoopInclusive(_, _, _, _, _)
BfsLoopInclusive(head, maxDepth, st, excludePrefixes, acc) ==
  IF head > Len(acc.queue) THEN acc
  ELSE
    LET key == acc.queue[head][1]
        depth == acc.queue[head][2]
    IN
    IF key \in DOMAIN acc.visited
    THEN BfsLoopInclusive(head + 1, maxDepth, st, excludePrefixes, acc)
    ELSE
      LET seen == [acc EXCEPT !.visited = Put(@, key, depth),
                              !.visitedOrder = Append(@, key)]
      IN BfsLoopInclusive(head + 1, maxDepth, st, excludePrefixes,
           IF depth <= maxDepth
           THEN processNeighbors(key, depth, st, excludePrefixes, seen)
           ELSE seen)

\* BfsLoop that expands a key every time it is taken from the queue
RECURSIVE BfsLoopRevisits(_, _, _, _, _)
BfsLoopRevisits(head, maxDepth, st, excludePrefixes, acc) ==
  IF head > Len(acc.queue) THEN acc
  ELSE
    LET key == acc.queue[head][1]
        depth == acc.queue[head][2]
        seen == [acc EXCEPT !.visited = Put(@, key, depth),
                            !.visitedOrder = Append(@, key)]
    IN BfsLoopRevisits(head + 1, maxDepth, st, excludePrefixes,
         IF depth < maxDepth
         THEN processNeighbors(key, depth, st, excludePrefixes, seen)
         ELSE seen)

\* graph.ts 492-509: the BFS loop; head is 1-based here
RECURSIVE BfsLoop(_, _, _, _, _)
BfsLoop(head, maxDepth, st, excludePrefixes, acc) ==
  IF head > Len(acc.queue) THEN acc
  ELSE
    LET key == acc.queue[head][1]
        depth == acc.queue[head][2]
    IN
    IF key \in DOMAIN acc.visited
    THEN BfsLoop(head + 1, maxDepth, st, excludePrefixes, acc)
    ELSE
      LET seen == [acc EXCEPT !.visited = Put(@, key, depth),
                              !.visitedOrder = Append(@, key)]
      IN BfsLoop(head + 1, maxDepth, st, excludePrefixes,
           IF depth < maxDepth
           THEN processNeighbors(key, depth, st, excludePrefixes, seen)
           ELSE seen)

\* FirstUnresolved reporting the last name that does not resolve
RECURSIVE FirstUnresolvedLast(_, _)
FirstUnresolvedLast(names, st) ==
  IF names = <<>> THEN Null
  ELSE IF resolve(names[Len(names)], st) = Null
       THEN [name |-> names[Len(names)]]
  ELSE FirstUnresolvedLast(SubSeq(names, 1, Len(names) - 1), st)

\* graph.ts 466-477: the first name that does not resolve, or Null
RECURSIVE FirstUnresolved(_, _)
FirstUnresolved(names, st) ==
  IF names = <<>> THEN Null
  ELSE IF resolve(Head(names), st) = Null THEN [name |-> Head(names)]
  ELSE FirstUnresolved(Tail(names), st)

\* (a, b) => a.depth - b.depth || a.name.localeCompare(b.name)
ByDepthThenName(a, b) ==
  \/ a.depth < b.depth
  \/ a.depth = b.depth /\ localeCompare(a.name, b.name) < 0

\* graph.ts traverse; names is the list of start names, multi tells whether
\* the caller passed an array
traverse(names, multi, maxDepth, st, excludeFolders) ==
  LET failed == FirstUnresolved(names, st) IN
  IF failed # Null
  THEN [kind |-> "traverse", error |-> <<failed.name>>, roots |-> <<>>,
        multi |-> multi, depth |-> maxDepth, notes |-> <<>>, missing |-> <<>>]
  ELSE
    LET startNotes == [i \in DOMAIN names |-> resolve(names[i], st)]
        excludePrefixes == MapSeq(ensureTrailingSlash, excludeFolders)
        queue == [i \in DOMAIN startNotes |->
                    <<normalize(startNotes[i].name), 0>>]
        done == BfsLoop(1, maxDepth, st, excludePrefixes,
                  [queue |-> queue, visited |-> EmptyMap,
                   visitedOrder |-> <<>>, missingFound |-> <<>>,
                   linkTypes |-> EmptyMap])
        entry(key) ==
          [name |-> st.notes[key].name,
           path |-> st.notes[key].path,
           depth |-> done.visited[key],
           link_type |-> IF key \in DOMAIN done.linkTypes
                         THEN done.linkTypes[key] ELSE "null"]
        missingEntry(name) ==
          [name |-> name, referenced_by |-> GetSet(st.missing, name)]
    IN [kind |-> "traverse",
        error |-> <<>>,
        roots |-> (IF multi
                   THEN [i \in DOMAIN startNotes |-> startNotes[i].name]
                   ELSE <<startNotes[1].name>>),
        multi |-> multi,
        depth |-> maxDepth,
        notes |-> SortBy(ByDepthThenName, MapSeq(entry, done.visitedOrder)),
        missing |-> MapSeq(missingEntry, done.missingFound)]

----------------------------------------------------------------------------
(* paginate *)

DefaultLimit == 50
DefaultOffset == 0

\* an optional number: <<>> is undefined, <<n>> is n
Undefined == <<>>
OrElse(x, d) == IF x = Undefined THEN d ELSE x[1]

Min(a, b) == IF a <= b THEN a ELSE b

\* Array.prototype.slice(from, to) for 0 <= from, 0 <= to
slice(items, from, to) == SubSeq(items, from + 1, Min(to, Len(items)))

\* paginate counting the page instead of the list
paginateTotalOfPage(items, opts) ==
  LET limit == OrElse(opts.limit, DefaultLimit)
      offset == OrElse(opts.offset, DefaultOffset)
      page == slice(items, offset, offset + limit)
  IN [total |-> Len(page), offset |-> offset, limit |-> limit,
      results |-> page]

\* filter.ts paginate
paginate(items, opts) ==
  LET limit == OrElse(opts.limit, DefaultLimit)
      offset == OrElse(opts.offset, DefaultOffset)
  IN [total |-> Len(items),
      offset |-> offset,
      limit |-> limit,
      results |-> slice(items, offset, offset + limit)]

----------------------------------------------------------------------------
(* filter.ts: the filter options and the compiled filter *)

\* an optional value: Undefined, or <<v>> for the value v
Some(v) == <<v>>

\* the truthiness of an optional string: undefined and "" are falsy
TruthyString(x) == x # Undefined /\ x[1] # <<>>

\* String.prototype.includes
includes(text, q) ==
  \E i \in 0 .. Len(text) - Len(q) : SubSeq(text, i + 1, i + Len(q)) = q

\* the characters \w matches
IsWordChar(c) ==
  c \notin {" ", "tab", "-", ".", "/", "[", "]", "!", "#", ":",
            "e_acute", "E_acute", "acute"}

\* new RegExp(pattern, "i") for the patterns of the model: "[" is a syntax
\* error, a pattern of letters and spaces is the literal it spells
RegExpCompiles(pattern) == "[" \notin Range(pattern)

\* re.test(text) for a compiled literal pattern
RegExpTest(pattern, text) ==
  includes(toLowerCase(text), toLowerCase(pattern))

\* the options every operation of the model is handed: the fields of
\* FilterOptions and PaginationOpts and those the operations add
NoOptions ==
  [folder |-> Undefined, excludeFolders |-> Undefined,
   excludePattern |-> Undefined, modifiedAfter |-> Undefined,
   modifiedBefore |-> Undefined, tags |-> Undefined,
   excludeTags |-> Undefined, tagsMode |-> Undefined,
   limit |-> Undefined, offset |-> Undefined,
   type |-> Undefined, noteNames |-> Undefined,
   wholeWord |-> Undefined, includeNames |-> Undefined,
   regex |-> Undefined, multiTerm |-> Undefined, threshold |-> Undefined]

\* compileExcludePattern that turns a pattern that does not compile into
\* the empty pattern, which every name matches
compileExcludePatternMatchAll(pattern) ==
  IF ~TruthyString(pattern) THEN Undefined
  ELSE IF RegExpCompiles(pattern[1]) THEN Some(pattern[1]) ELSE Some(<<>>)

\* filter.ts compileExcludePattern: the compiled pattern, if there is one
compileExcludePattern(pattern) ==
  IF ~TruthyString(pattern) THEN Undefined
  ELSE IF RegExpCompiles(pattern[1]) THEN Some(pattern[1]) ELSE Undefined

\* t.replace(/^#/, "")
StripHash(t) == IF t # <<>> /\ Head(t) = "#" THEN Tail(t) ELSE t

\* filter.ts normalizeTagSet
normalizeTagSet(tags) ==
  IF tags = Undefined \/ tags[1] = <<>> THEN Undefined
  ELSE Some({toLowerCase(StripHash(t)) : t \in Range(tags[1])})

\* new Date(s): the time value, or an Invalid Date
newDate(s) ==
  CASE s = <<"1">> -> [valid |-> TRUE, time |-> 1]
    [] s = <<"2">> -> [valid |-> TRUE, time |-> 2]
    [] s = <<"3">> -> [valid |-> TRUE, time |-> 3]
    [] OTHER -> [valid |-> FALSE, time |-> 0]

\* mtime < date and mtime > date: false against an Invalid Date
DateBefore(mtime, date) == date.valid /\ mtime < date.time
DateAfter(mtime, date) == date.valid /\ mtime > date.time

\* filter.ts compileFilter
compileFilter(opts) ==
  [folder |-> opts.folder,
   excludeFolders |-> opts.excludeFolders,
   excludeRe |-> compileExcludePattern(opts.excludePattern),
   modifiedAfter |-> IF TruthyString(opts.modifiedAfter)
                     THEN Some(newDate(opts.modifiedAfter[1]))
                     ELSE Undefined,
   modifiedBefore |-> IF TruthyString(opts.modifiedBefore)
                      THEN Some(newDate(opts.modifiedBefore[1]))
                      ELSE Undefined,
   tagSet |-> normalizeTagSet(opts.tags),
   excludeTagSet |-> normalizeTagSet(opts.excludeTags),
   tagsMode |-> OrElse(opts.tagsMode, "any")]

\* note.path.slice(vaultPath.length + 1): paths of the model are kept
\* relative to the vault root
relPath(note) == note.path

\* filter.ts isNoteInFolder
isNoteInFolder(note, folderPrefix) ==
  startsWith(relPath(note), ensureTrailingSlash(folderPrefix))

\* filter.ts isNoteInExcludedFolder
isNoteInExcludedFolder(note, excludeFolders) ==
  \E i \in DOMAIN excludeFolders :
    startsWith(relPath(note), ensureTrailingSlash(excludeFolders[i]))

\* filter.ts passesExcludePattern
passesExcludePattern(noteName, re) ==
  IF re = Undefined THEN TRUE ELSE ~RegExpTest(re[1], noteName)

\* filter.ts hasMatchingTag
hasMatchingTag(note, tagSet) ==
  \/ \E i \in DOMAIN note.frontmatterTags :
       toLowerCase(note.frontmatterTags[i]) \in tagSet
  \/ \E i \in DOMAIN note.inlineTags :
       toLowerCase(note.inlineTags[i]) \in tagSet

\* hasAllTags that looks at the frontmatter tags only
hasAllTagsFrontmatterOnly(note, tagSet) ==
  LET noteTags == {toLowerCase(t) : t \in Range(note.frontmatterTags)}
  IN \A tag \in tagSet : tag \in noteTags

\* filter.ts hasAllTags
hasAllTags(note, tagSet) ==
  LET noteTags ==
        {toLowerCase(t) :
           t \in Range(note.frontmatterTags) \cup Range(note.inlineTags)}
  IN \A tag \in tagSet : tag \in noteTags

\* filter.ts matchesTags
matchesTags(note, tagSet, mode) ==
  IF mode = "all" THEN hasAllTags(note, tagSet)
  ELSE hasMatchingTag(note, tagSet)

\* filter.ts passesCompiledFilter
passesCompiledFilter(note, cf) ==
  IF TruthyString(cf.folder) /\ ~isNoteInFolder(note, cf.folder[1])
  THEN FALSE
  ELSE IF cf.excludeFolders # Undefined
          /\ isNoteInExcludedFolder(note, cf.excludeFolders[1])
  THEN FALSE
  ELSE IF ~passesExcludePattern(note.name, cf.excludeRe) THEN FALSE
  ELSE IF cf.modifiedAfter # Undefined
          /\ DateBefore(note.mtime, cf.modifiedAfter[1])
  THEN FALSE
  ELSE IF cf.modifiedBefore # Undefined
          /\ DateAfter(note.mtime, cf.modifiedBefore[1])
  THEN FALSE
  ELSE IF cf.tagSet # Undefined
          /\ ~matchesTags(note, cf.tagSet[1], cf.tagsMode)
  THEN FALSE
  ELSE IF cf.excludeTagSet # Undefined
          /\ hasMatchingTag(note, cf.excludeTagSet[1])
  THEN FALSE
  ELSE TRUE

\* filter.ts filterNotes: the keys of the filtered map, in insertion order
filterNotes(st, opts) ==
  LET cf == compileFilter(opts) IN
  SelectSeq(st.notesOrder, LAMBDA k : passesCompiledFilter(st.notes[k], cf))

\* types.ts allTags: the union of both tag lists, first occurrences kept
allTags(note) == Dedup(note.frontmatterTags \o note.inlineTags)

----------------------------------------------------------------------------
(* graph.ts: the list queries *)

RECURSIVE Flatten(_)
Flatten(ss) == IF ss = <<>> THEN <<>> ELSE Head(ss) \o Flatten(Tail(ss))

\* the iteration order of a set of referrers: referrers are note keys and
\* are added note by note
SetInOrder(S, st) == SelectSeq(st.notesOrder, LAMBDA k : k \in S)

\* the iteration order of the keys of backward and missing: the order in
\* which buildAdjacency first meets them
KeysInOrder(m, st) ==
  SelectSeq(Dedup(Flatten([i \in DOMAIN st.notesOrder |->
                             st.forward[st.notesOrder[i]]])),
            LAMBDA t : t \in DOMAIN m)

NotFound(name) == [name |-> name, error |-> "not found"]

\* graph.ts batchResolve
batchResolve(names, st) ==
  LET idx == [i \in DOMAIN names |-> i]
      hit == SelectSeq(idx, LAMBDA i : resolve(names[i], st) # Null)
      miss == SelectSeq(idx, LAMBDA i : resolve(names[i], st) = Null)
  IN [resolved |->
        [j \in DOMAIN hit |->
           LET note == resolve(names[hit[j]], st)
           IN [name |-> note.name, path |-> note.path,
               lines |-> note.lines, tags |-> allTags(note),
               frontmatterTags |-> note.frontmatterTags,
               inlineTags |-> note.inlineTags]],
      errors |-> [j \in DOMAIN miss |-> NotFound(names[miss[j]])]]

\* graph.ts filterBacklinkRef: <<>> for null, else the one entry; the path of
\* an entry is Undefined for null, else Some(path)
filterBacklinkRef(refKey, st, folder, cf) ==
  LET known == refKey \in DOMAIN st.notes
      name == IF known THEN st.notes[refKey].name ELSE refKey
      path == IF known THEN Some(st.notes[refKey].path) ELSE Undefined
      entry == [name |-> name, path |-> path]
  IN IF TruthyString(folder) /\ ~TruthyString(path) THEN <<entry>>
     ELSE IF TruthyString(folder)
             /\ ~startsWith(relPath(st.notes[refKey]),
                            ensureTrailingSlash(folder[1]))
     THEN <<>>
     ELSE IF ~known
     THEN IF passesExcludePattern(name, cf.excludeRe)
          THEN <<entry>> ELSE <<>>
     ELSE IF passesCompiledFilter(st.notes[refKey], cf)
          THEN <<entry>> ELSE <<>>

ByName(a, b) == localeCompare(a.name, b.name) < 0

\* backlinks that returns the referrers in the order of the referrer set
backlinksUnsorted(noteName, st, opts) ==
  LET note == resolve(noteName, st) IN
  IF note = Null THEN paginate(<<>>, opts)
  ELSE
    LET key == normalize(note.name) IN
    IF key \notin DOMAIN st.backward THEN paginate(<<>>, opts)
    ELSE
      LET cf == compileFilter([opts EXCEPT !.folder = Undefined])
          refs == SetInOrder(st.backward[key], st)
          all == Flatten([i \in DOMAIN refs |->
                            filterBacklinkRef(refs[i], st, opts.folder, cf)])
      IN paginate(all, opts)

\* graph.ts backlinks
backlinks(noteName, st, opts) ==
  LET note == resolve(noteName, st) IN
  IF note = Null THEN paginate(<<>>, opts)
  ELSE
    LET key == normalize(note.name) IN
    IF key \notin DOMAIN st.backward THEN paginate(<<>>, opts)
    ELSE
      LET cf == compileFilter([opts EXCEPT !.folder = Undefined])
          refs == SetInOrder(st.backward[key], st)
          all == Flatten([i \in DOMAIN refs |->
                            filterBacklinkRef(refs[i], st, opts.folder, cf)])
      IN paginate(SortBy(ByName, all), opts)

\* graph.ts batchFindBacklinks
batchFindBacklinks(names, st, opts) ==
  LET idx == [i \in DOMAIN names |-> i]
      hit == SelectSeq(idx, LAMBDA i : resolve(names[i], st) # Null)
      miss == SelectSeq(idx, LAMBDA i : resolve(names[i], st) = Null)
  IN [results |->
        [j \in DOMAIN hit |->
           LET note == resolve(names[hit[j]], st)
           IN [name |-> note.name,
               backlinks |-> backlinks(note.name, st, opts)]],
      errors |-> [j \in DOMAIN miss |-> NotFound(names[miss[j]])]]

\* markdown.ts stripFrontmatterLines
stripFrontmatterLines(lines) ==
  IF lines = <<>> \/ lines[1] # <<"-", "-", "-">> THEN lines
  ELSE LET closing == {i \in 2 .. Len(lines) : lines[i] = <<"-", "-", "-">>}
       IN IF closing = {} THEN lines
          ELSE SubSeq(lines,
                      (CHOOSE i \in closing : \A j \in closing : i <= j) + 1,
                      Len(lines))

\* note.content.length: the lines and the line breaks between them
RECURSIVE ContentLength(_)
ContentLength(lines) ==
  IF lines = <<>> THEN 0
  ELSE Len(Head(lines)) + (IF Len(lines) > 1 THEN 1 ELSE 0)
         + ContentLength(Tail(lines))

\* orphans that lists the orphans whether or not the exclude pattern compiles
orphansPatternIgnored(st, opts) ==
  LET cf == compileFilter(opts)
      keys == SelectSeq(st.notesOrder, LAMBDA key :
                /\ passesCompiledFilter(st.notes[key], cf)
                /\ \/ key \notin DOMAIN st.backward
                   \/ st.backward[key] = {})
      orphanList ==
        [i \in DOMAIN keys |->
           LET note == st.notes[keys[i]]
               bodyLines == stripFrontmatterLines(note.lines)
           IN [name |-> note.name, path |-> note.path,
               tags |-> allTags(note),
               frontmatterTags |-> note.frontmatterTags,
               inlineTags |-> note.inlineTags,
               content_length |-> ContentLength(note.lines),
               empty |-> \A j \in DOMAIN bodyLines :
                           trim(bodyLines[j]) = <<>>]]
  IN paginate(SortBy(ByName, orphanList), opts)

\* orphans that takes a note without outgoing links for an orphan
orphansByForward(st, opts) ==
  LET cf == compileFilter(opts) IN
  IF TruthyString(opts.excludePattern) /\ cf.excludeRe = Undefined
  THEN [total |-> 0,
        offset |-> OrElse(opts.offset, DefaultOffset),
        limit |-> OrElse(opts.limit, DefaultLimit),
        results |-> <<>>]
  ELSE
    LET keys == SelectSeq(st.notesOrder, LAMBDA key :
                  /\ passesCompiledFilter(st.notes[key], cf)
                  /\ st.forward[key] = <<>>)
        orphanList ==
          [i \in DOMAIN keys |->
             LET note == st.notes[keys[i]]
                 bodyLines == stripFrontmatterLines(note.lines)
             IN [name |-> note.name, path |-> note.path,
                 tags |-> allTags(note),
                 frontmatterTags |-> note.frontmatterTags,
                 inlineTags |-> note.inlineTags,
                 content_length |-> ContentLength(note.lines),
                 empty |-> \A j \in DOMAIN bodyLines :
                             trim(bodyLines[j]) = <<>>]]
    IN paginate(SortBy(ByName, orphanList), opts)

\* graph.ts orphans
orphans(st, opts) ==
  LET cf == compileFilter(opts) IN
  IF TruthyString(opts.excludePattern) /\ cf.excludeRe = Undefined
  THEN [total |-> 0,
        offset |-> OrElse(opts.offset, DefaultOffset),
        limit |-> OrElse(opts.limit, DefaultLimit),
        results |-> <<>>]
  ELSE
    LET keys == SelectSeq(st.notesOrder, LAMBDA key :
                  /\ passesCompiledFilter(st.notes[key], cf)
                  /\ \/ key \notin DOMAIN st.backward
                     \/ st.backward[key] = {})
        orphanList ==
          [i \in DOMAIN keys |->
             LET note == st.notes[keys[i]]
                 bodyLines == stripFrontmatterLines(note.lines)
             IN [name |-> note.name, path |-> note.path,
                 tags |-> allTags(note),
                 frontmatterTags |-> note.frontmatterTags,
                 inlineTags |-> note.inlineTags,
                 content_length |-> ContentLength(note.lines),
                 empty |-> \A j \in DOMAIN bodyLines :
                             trim(bodyLines[j]) = <<>>]]
    IN paginate(SortBy(ByName, orphanList), opts)

\* HAS_EXTENSION = /\.\w{1,5}$/
HAS_EXTENSION(name) ==
  \E n \in 1 .. 5 :
    /\ Len(name) > n
    /\ name[Len(name) - n] = "."
    /\ \A i \in Len(name) - n + 1 .. Len(name) : IsWordChar(name[i])

\* graph.ts passesTypeFilter
passesTypeFilter(name, type) ==
  IF type = "all" THEN TRUE
  ELSE IF type = "embed" THEN HAS_EXTENSION(name)
  ELSE ~HAS_EXTENSION(name)

\* graph.ts buildScopeKeys: Undefined for null, else the set of keys
buildScopeKeys(noteNames, st) ==
  IF noteNames = Undefined THEN Undefined
  ELSE Some({normalize(resolve(n, st).name) :
               n \in {m \in Range(noteNames[1]) : resolve(m, st) # Null}})

\* graph.ts isReferrerInScope, and the filter of filterMissingEntry
isReferrerInScope(refKey, scopeKeys, st, cf) ==
  IF scopeKeys # Undefined /\ refKey \notin scopeKeys[1] THEN FALSE
  ELSE IF refKey \notin DOMAIN st.notes THEN FALSE
  ELSE passesCompiledFilter(st.notes[refKey], cf)

\* graph.ts filterMissingEntry: <<>> for null, else the one entry
filterMissingEntry(name, referrers, type, scopeKeys, st, cf) ==
  IF ~passesTypeFilter(name, type) THEN <<>>
  ELSE LET filteredReferrers ==
             SelectSeq(SetInOrder(referrers, st),
                       LAMBDA refKey :
                         isReferrerInScope(refKey, scopeKeys, st, cf))
       IN IF Len(filteredReferrers) = 0 THEN <<>>
          ELSE <<[name |-> name, referenced_by |-> filteredReferrers,
                  count |-> Len(filteredReferrers)]>>

ByCountDesc(a, b) == b.count < a.count

\* graph.ts missingNotes
missingNotes(st, opts) ==
  LET type == OrElse(opts.type, "all")
      cf == compileFilter(opts)
      scopeKeys == buildScopeKeys(opts.noteNames, st)
      names == KeysInOrder(st.missing, st)
      missingList ==
        Flatten([i \in DOMAIN names |->
                   filterMissingEntry(names[i], st.missing[names[i]], type,
                                      scopeKeys, st, cf)])
  IN paginate(SortBy(ByCountDesc, missingList), opts)

\* collectBySource that does not look at the type of the missing name
collectBySourceAnyType(st, type, scopeKeys, cf) ==
  LET names == KeysInOrder(st.missing, st)
  IN Flatten([i \in DOMAIN names |->
       LET refs == SelectSeq(SetInOrder(st.missing[names[i]], st),
                             LAMBDA refKey :
                               isReferrerInScope(refKey, scopeKeys, st, cf))
       IN [j \in DOMAIN refs |->
             [source |-> refs[j],
              link |-> [name |-> names[i],
                        is_embed |-> HAS_EXTENSION(names[i])]]]])

\* graph.ts collectBySource: the (source, broken link) pairs in the order
\* in which they are pushed
collectBySource(st, type, scopeKeys, cf) ==
  LET names == SelectSeq(KeysInOrder(st.missing, st),
                         LAMBDA name : passesTypeFilter(name, type))
  IN Flatten([i \in DOMAIN names |->
       LET refs == SelectSeq(SetInOrder(st.missing[names[i]], st),
                             LAMBDA refKey :
                               isReferrerInScope(refKey, scopeKeys, st, cf))
       IN [j \in DOMAIN refs |->
             [source |-> refs[j],
              link |-> [name |-> names[i],
                        is_embed |-> HAS_EXTENSION(names[i])]]]])

ByCountDescThenSource(a, b) ==
  \/ b.count < a.count
  \/ b.count = a.count /\ localeCompare(a.source, b.source) < 0

\* graph.ts missingNotesBySource
missingNotesBySource(st, opts) ==
  LET type == OrElse(opts.type, "all")
      cf == compileFilter(opts)
      scopeKeys == buildScopeKeys(opts.noteNames, st)
      pairs == collectBySource(st, type, scopeKeys, cf)
      sources == Dedup([i \in DOMAIN pairs |-> pairs[i].source])
      sourceList ==
        [i \in DOMAIN sources |->
           LET mine == SelectSeq(pairs, LAMBDA p : p.source = sources[i])
               note == st.notes[sources[i]]
           IN [source |-> note.name, source_path |-> note.path,
               broken_links |-> [j \in DOMAIN mine |-> mine[j].link],
               count |-> Len(mine)]]
  IN paginate(SortBy(ByCountDescThenSource, sourceList), opts)

\* stats that counts every key of missing, whoever refers to it
statsAllMissing(st, opts) ==
  LET inScope == filterNotes(st, opts)
      tagged == Len(SelectSeq(inScope, LAMBDA key :
                  \/ Len(st.notes[key].frontmatterTags) > 0
                  \/ Len(st.notes[key].inlineTags) > 0))
      orphanCount == Len(SelectSeq(inScope, LAMBDA key :
                       \/ key \notin DOMAIN st.backward
                       \/ st.backward[key] = {}))
  IN [total_notes |-> Len(inScope),
      tagged |-> tagged,
      untagged |-> Len(inScope) - tagged,
      orphans |-> orphanCount,
      missing_links |-> Cardinality(DOMAIN st.missing)]

\* graph.ts stats
stats(st, opts) ==
  LET inScope == filterNotes(st, opts)
      tagged == Len(SelectSeq(inScope, LAMBDA key :
                  \/ Len(st.notes[key].frontmatterTags) > 0
                  \/ Len(st.notes[key].inlineTags) > 0))
      orphanCount == Len(SelectSeq(inScope, LAMBDA key :
                       \/ key \notin DOMAIN st.backward
                       \/ st.backward[key] = {}))
      missingCount ==
        Cardinality({name \in DOMAIN st.missing :
                       \E refKey \in st.missing[name] :
                         refKey \in Range(inScope)})
  IN [total_notes |-> Len(inScope),
      tagged |-> tagged,
      untagged |-> Len(inScope) - tagged,
      orphans |-> orphanCount,
      missing_links |-> missingCount]

----------------------------------------------------------------------------
(* search.ts: search, the tag queries and the similar names *)

\* q.split(/\s+/).filter((t) => t.length > 0)
RECURSIVE Terms(_)
Terms(q) ==
  LET s == TrimStart(q) IN
  IF s = <<>> THEN <<>>
  ELSE LET spaces == {i \in DOMAIN s : IsWhiteSpace(s[i])}
           end == IF spaces = {} THEN Len(s) + 1
                  ELSE CHOOSE i \in spaces : \A j \in spaces : i <= j
       IN <<SubSeq(s, 1, end - 1)>> \o Terms(SubSeq(s, end, Len(s)))

\* \b at position i of text (between text[i] and text[i + 1])
WordBoundary(text, i) ==
  LET before == i >= 1 /\ IsWordChar(text[i])
      after == i < Len(text) /\ IsWordChar(text[i + 1])
  IN before # after

\* new RegExp(`\\b${escapeRegex(q)}\\b`, "i").test(text)
WholeWordTest(q, text) ==
  LET lower == toLowerCase(text) IN
  \E i \in 0 .. Len(text) - Len(q) :
    /\ SubSeq(lower, i + 1, i + Len(q)) = toLowerCase(q)
    /\ WordBoundary(text, i)
    /\ WordBoundary(text, i + Len(q))

\* buildMatcher that asks a line to contain every term of the query
matchTextEveryTerm(text, query, wholeWord, regex, multiTerm) ==
  IF regex
  THEN RegExpCompiles(query) /\ RegExpTest(query, text)
  ELSE LET q == toLowerCase(query) IN
       IF wholeWord THEN WholeWordTest(q, text)
       ELSE IF multiTerm /\ Len(Terms(q)) > 1
       THEN \A i \in DOMAIN Terms(q) :
              includes(toLowerCase(text), Terms(q)[i])
       ELSE includes(toLowerCase(text), q)

\* search.ts buildMatcher, applied to a text
matchText(text, query, wholeWord, regex, multiTerm) ==
  IF regex
  THEN RegExpCompiles(query) /\ RegExpTest(query, text)
  ELSE LET q == toLowerCase(query) IN
       IF wholeWord THEN WholeWordTest(q, text)
       ELSE IF multiTerm /\ Len(Terms(q)) > 1
       THEN \E i \in DOMAIN Terms(q) :
              includes(toLowerCase(text), Terms(q)[i])
       ELSE includes(toLowerCase(text), q)

NameMatchPrefix ==
  <<"[", "n", "a", "m", "e", " ", "m", "a", "t", "c", "h", "]", " ">>

\* search.ts search
search(query, st, opts) ==
  LET matches(text) ==
        matchText(text, query, OrElse(opts.wholeWord, FALSE),
                  OrElse(opts.regex, FALSE), OrElse(opts.multiTerm, TRUE))
      filteredNotes == filterNotes(st, opts)
      named == SelectSeq(filteredNotes,
                         LAMBDA k : matches(st.notes[k].name))
      nameMatches ==
        [i \in DOMAIN named |->
           [file |-> st.notes[named[i]].name,
            path |-> st.notes[named[i]].path,
            line |-> 0,
            text |-> NameMatchPrefix \o st.notes[named[i]].name]]
      contentMatches ==
        Flatten([i \in DOMAIN filteredNotes |->
          LET note == st.notes[filteredNotes[i]]
              at == SelectSeq([j \in DOMAIN note.lines |-> j],
                              LAMBDA j : matches(note.lines[j]))
          IN [j \in DOMAIN at |->
                [file |-> note.name, path |-> note.path, line |-> at[j],
                 text |-> trim(note.lines[at[j]])]]])
      collected ==
        (IF OrElse(opts.includeNames, FALSE) THEN nameMatches ELSE <<>>)
          \o contentMatches
  IN paginate(collected, opts)

\* search.ts findByTag
findByTag(tag, st, opts) ==
  LET normalizedTag == toLowerCase(StripHash(tag))
      inScope == filterNotes(st, opts)
      keys == SelectSeq(inScope, LAMBDA k :
                \E t \in Range(allTags(st.notes[k])) :
                  toLowerCase(t) = normalizedTag)
      found ==
        [i \in DOMAIN keys |->
           LET note == st.notes[keys[i]]
           IN [name |-> note.name, path |-> note.path,
               tags |-> allTags(note),
               frontmatterTags |-> note.frontmatterTags,
               inlineTags |-> note.inlineTags]]
  IN paginate(SortBy(ByName, found), opts)

\* search.ts findUntagged
findUntagged(st, opts) ==
  LET inScope == filterNotes(st, opts)
      keys == SelectSeq(inScope, LAMBDA k :
                /\ Len(st.notes[k].frontmatterTags) = 0
                /\ Len(st.notes[k].inlineTags) = 0)
      found == [i \in DOMAIN keys |->
                  [name |-> st.notes[keys[i]].name,
                   path |-> st.notes[keys[i]].path]]
  IN paginate(SortBy(ByName, found), opts)

\* levenshtein that charges a substitution for equal characters too
levenshteinAlwaysSubstitutes(a0, b0) ==
  LET a == IF Len(a0) < Len(b0) THEN b0 ELSE a0
      b == IF Len(a0) < Len(b0) THEN a0 ELSE b0
      Row[i \in 1 .. Len(a), prev \in Seq(Nat), curr \in Seq(Nat)] ==
        LET j == Len(curr) IN
        IF j > Len(b) THEN curr
        ELSE Row[i, prev,
                 Append(curr, Min(Min(prev[j + 1] + 1, curr[j] + 1),
                                  prev[j] + 1))]
      Rows[i \in 0 .. Len(a)] ==
        IF i = 0 THEN [j \in 1 .. Len(b) + 1 |-> j - 1]
        ELSE Row[i, Rows[i - 1], <<i>>]
  IN Rows[Len(a)][Len(b) + 1]

\* the full-matrix levenshtein: dp[i][j] is the distance of the first i
\* characters of a to the first j characters of b
levenshteinMatrix(a, b) ==
  LET dp[i \in 0 .. Len(a), j \in 0 .. Len(b)] ==
        IF j = 0 THEN i
        ELSE IF i = 0 THEN j
        ELSE LET cost == IF a[i] = b[j] THEN 0 ELSE 1
             IN Min(Min(dp[i - 1, j] + 1, dp[i, j - 1] + 1),
                    dp[i - 1, j - 1] + cost)
  IN dp[Len(a), Len(b)]

\* search.ts levenshtein.  Row is the inner loop (175-178): the row curr of
\* the longer string's i-th character, filled column by column from the row
\* prev.  Rows is the outer loop (173-180): the row prev after i rounds.
levenshtein(a0, b0) ==
  LET a == IF Len(a0) < Len(b0) THEN b0 ELSE a0
      b == IF Len(a0) < Len(b0) THEN a0 ELSE b0
      Row[i \in 1 .. Len(a), prev \in Seq(Nat), curr \in Seq(Nat)] ==
        LET j == Len(curr) IN
        IF j > Len(b) THEN curr
        ELSE LET cost == IF a[i] = b[j] THEN 0 ELSE 1
             IN Row[i, prev,
                    Append(curr, Min(Min(prev[j + 1] + 1, curr[j] + 1),
                                     prev[j] + cost))]
      Rows[i \in 0 .. Len(a)] ==
        IF i = 0 THEN [j \in 1 .. Len(b) + 1 |-> j - 1]
        ELSE Row[i, Rows[i - 1], <<i>>]
  IN Rows[Len(a)][Len(b) + 1]

DefaultThreshold == 3

ByDistanceThenName(a, b) ==
  \/ a.distance < b.distance
  \/ a.distance = b.distance /\ localeCompare(a.name, b.name) < 0

\* search.ts findSimilarNames
findSimilarNames(name, st, opts) ==
  LET threshold == OrElse(opts.threshold, DefaultThreshold)
      lowerName == toLowerCase(name)
      dist == [k \in DOMAIN st.notes |->
                 levenshtein(lowerName, toLowerCase(st.notes[k].name))]
      keys == SelectSeq(st.notesOrder,
                        LAMBDA k : dist[k] > 0 /\ dist[k] <= threshold)
      found == [i \in DOMAIN keys |->
                  [name |-> st.notes[keys[i]].name,
                   path |-> st.notes[keys[i]].path,
                   distance |-> dist[keys[i]]]]
  IN paginate(SortBy(ByDistanceThenName, found), opts)

----------------------------------------------------------------------------
(* The graph: construction, mutation and the requests that read it *)

Idle == op = NoRequest

SetGraph(g) ==
  /\ notes' = g.notes
  /\ notesOrder' = g.notesOrder
  /\ forward' = g.forward
  /\ backward' = g.backward
  /\ missing' = g.missing
  /\ fuzzyIndex' = g.fuzzyIndex

InitGraph(d) ==
  LET g == buildGraph(d) IN
  /\ disk = d
  /\ writes = 0
  /\ notes = g.notes
  /\ notesOrder = g.notesOrder
  /\ forward = g.forward
  /\ backward = g.backward
  /\ missing = g.missing
  /\ fuzzyIndex = g.fuzzyIndex
  /\ published = g
  /\ lastMut = "buildGraph"
  /\ input = <<>>
  /\ op = NoRequest
  /\ res = NoResult

\* the vaults the server is started on
InitialVaults ==
  {d \in [Paths -> Contents \cup {Absent}] :
     /\ d[1] \in {Absent, Content(0)}
     /\ d[2] = Content(3)
     /\ d[3] \in {Absent, Content(1)}
     /\ d[4] = Content(2)}

AnyVault == [Paths -> Contents \cup {Absent, Unreadable}]

\* index.ts 605: const state = buildGraph(vaultPath)
Init == \E d \in InitialVaults : InitGraph(d)

InitBuilt == \E d \in AnyVault : InitGraph(d)

\* the external writer creates, rewrites, removes or locks a file
WriteFile(p, c) ==
  /\ Idle
  /\ writes < MaxWrites
  /\ c # disk[p]
  /\ disk' = [disk EXCEPT ![p] = c]
  /\ writes' = writes + 1
  /\ UNCHANGED <<graphVars, published, lastMut, input, op, res>>

\* rebuildGraph that leaves the old fuzzy index in place
RebuildGraphKeepsFuzzyIndex ==
  /\ Idle
  /\ LET fresh == buildGraph(disk) IN
     /\ notes' = fresh.notes
     /\ notesOrder' = fresh.notesOrder
     /\ forward' = fresh.forward
     /\ backward' = fresh.backward
     /\ missing' = fresh.missing
     /\ fuzzyIndex' = fuzzyIndex
     /\ published' = fresh
  /\ lastMut' = "rebuildGraph"
  /\ op' = [name |-> "rebuildGraph", notes_before |-> Cardinality(DOMAIN notes)]
  /\ res' = [kind |-> "void"]
  /\ UNCHANGED <<disk, writes, input>>

\* graph.ts rebuildGraph
RebuildGraph ==
  /\ Idle
  /\ LET fresh == buildGraph(disk) IN
     /\ notes' = fresh.notes
     /\ notesOrder' = fresh.notesOrder
     /\ forward' = fresh.forward
     /\ backward' = fresh.backward
     /\ missing' = fresh.missing
     /\ fuzzyIndex' = fresh.fuzzyIndex
     /\ published' = fresh
  /\ lastMut' = "rebuildGraph"
  /\ op' = [name |-> "rebuildGraph", notes_before |-> Cardinality(DOMAIN notes)]
  /\ res' = [kind |-> "void"]
  /\ UNCHANGED <<disk, writes, input>>

ResolveNames ==
  {Note_Dash_With_Dashes, note_with_dashes_spaced, NoteZ, Note_With_Dashes,
   NoteWithDashes, <<" ", "B", " ">>}

\* graph.ts resolve
Resolve(name) ==
  /\ Idle
  /\ op' = [name |-> "resolve", noteName |-> name]
  /\ res' = [kind |-> "resolve", note |-> resolve(name, state)]
  /\ UNCHANGED <<disk, writes, graphVars, published, lastMut, input>>

TraverseInputs ==
  {[names |-> <<Note_Dash_With_Dashes>>, multi |-> FALSE],
   [names |-> <<<<"b">>>>, multi |-> FALSE],
   [names |-> <<<<"B">>, Note_With_Dashes, <<"b">>>>, multi |-> TRUE],
   [names |-> <<NoteWithDashes, <<"z">>, NoteZ>>, multi |-> TRUE],
   [names |-> <<NoteZ, <<"b">>>>, multi |-> TRUE]}

ExcludeFolderLists == {<<>>, <<<<"j">>>>}

\* graph.ts traverse
Traverse(in, maxDepth, excludeFolders) ==
  /\ Idle
  /\ op' = [name |-> "traverse", noteName |-> in.names, multi |-> in.multi,
            maxDepth |-> maxDepth, excludeFolders |-> excludeFolders]
  /\ res' = traverse(in.names, in.multi, maxDepth, state, excludeFolders)
  /\ UNCHANGED <<disk, writes, graphVars, published, lastMut, input>>

\* the upsert of the file at path p, after the writer has written it
RefreshNote(p) ==
  /\ Idle
  /\ disk[p].status = "file"
  /\ LET g == refreshNote(p, disk, state) IN
     /\ SetGraph(g)
     /\ published' = g
  /\ lastMut' = "refreshNote"
  /\ op' = [name |-> "refreshNote", path |-> p,
            isNew |-> \A k \in DOMAIN notes : notes[k].path # FilePath(p),
            existed |-> normalize(FileName(p)) \in DOMAIN notes,
            oldTargets |-> IF normalize(FileName(p)) \in DOMAIN forward
                           THEN forward[normalize(FileName(p))] ELSE <<>>]
  /\ res' = [kind |-> "void"]
  /\ UNCHANGED <<disk, writes, input>>

\* the frame of a request that only reads the graph
readFrame == <<disk, writes, graphVars, published, lastMut, input>>

\* graph.ts batchResolve
BatchResolve(names) ==
  /\ Idle
  /\ op' = [name |-> "batchResolve", names |-> names]
  /\ res' = [kind |-> "batchResolve", value |-> batchResolve(names, state)]
  /\ UNCHANGED readFrame

\* backlinks that registers an empty referrer set for a note without one
BacklinksCreatesEntry(noteName, opts) ==
  /\ Idle
  /\ op' = [name |-> "backlinks", noteName |-> noteName, opts |-> opts]
  /\ res' = [kind |-> "backlinks", page |-> backlinks(noteName, state, opts)]
  /\ backward' =
       LET note == resolve(noteName, state) IN
       IF note = Null THEN backward
       ELSE Put(backward, normalize(note.name),
                GetSet(backward, normalize(note.name)))
  /\ UNCHANGED <<disk, writes, notes, notesOrder, forward, missing,
                 fuzzyIndex, published, lastMut, input>>

\* graph.ts backlinks
Backlinks(noteName, opts) ==
  /\ Idle
  /\ op' = [name |-> "backlinks", noteName |-> noteName, opts |-> opts]
  /\ res' = [kind |-> "backlinks", page |-> backlinks(noteName, state, opts)]
  /\ UNCHANGED readFrame

\* graph.ts batchFindBacklinks
BatchFindBacklinks(names, opts) ==
  /\ Idle
  /\ op' = [name |-> "batchFindBacklinks", names |-> names, opts |-> opts]
  /\ res' = [kind |-> "batchFindBacklinks",
             value |-> batchFindBacklinks(names, state, opts)]
  /\ UNCHANGED readFrame

\* graph.ts orphans
Orphans(opts) ==
  /\ Idle
  /\ op' = [name |-> "orphans", opts |-> opts]
  /\ res' = [kind |-> "orphans", page |-> orphans(state, opts)]
  /\ UNCHANGED readFrame

\* graph.ts missingNotes
MissingNotes(opts) ==
  /\ Idle
  /\ op' = [name |-> "missingNotes", opts |-> opts]
  /\ res' = [kind |-> "missingNotes", page |-> missingNotes(state, opts)]
  /\ UNCHANGED readFrame

\* graph.ts missingNotesBySource
MissingNotesBySource(opts) ==
  /\ Idle
  /\ op' = [name |-> "missingNotesBySource", opts |-> opts]
  /\ res' = [kind |-> "missingNotesBySource",
             page |-> missingNotesBySource(state, opts)]
  /\ UNCHANGED readFrame

\* graph.ts stats
Stats(opts) ==
  /\ Idle
  /\ op' = [name |-> "stats", opts |-> opts]
  /\ res' = [kind |-> "stats", value |-> stats(state, opts)]
  /\ UNCHANGED readFrame

\* search.ts search
Search(query, opts) ==
  /\ Idle
  /\ op' = [name |-> "search", query |-> query, opts |-> opts]
  /\ res' = [kind |-> "search", page |-> search(query, state, opts)]
  /\ UNCHANGED readFrame

\* search.ts findByTag
FindByTag(tag, opts) ==
  /\ Idle
  /\ op' = [name |-> "findByTag", tag |-> tag, opts |-> opts]
  /\ res' = [kind |-> "findByTag", page |-> findByTag(tag, state, opts)]
  /\ UNCHANGED readFrame

\* search.ts findUntagged
FindUntagged(opts) ==
  /\ Idle
  /\ op' = [name |-> "findUntagged", opts |-> opts]
  /\ res' = [kind |-> "findUntagged", page |-> findUntagged(state, opts)]
  /\ UNCHANGED readFrame

\* search.ts findSimilarNames
FindSimilarNames(noteName, opts) ==
  /\ Idle
  /\ op' = [name |-> "findSimilarNames", noteName |-> noteName,
            opts |-> opts]
  /\ res' = [kind |-> "findSimilarNames",
             page |-> findSimilarNames(noteName, state, opts)]
  /\ UNCHANGED readFrame

\* index.ts jsonResult: the handler returns and the server is idle again
Reply ==
  /\ ~Idle
  /\ op' = NoRequest
  /\ res' = NoResult
  /\ UNCHANGED <<disk, writes, graphVars, published, lastMut, input>>

\* the requests served while the vault changes
LiveResolveNames == {Note_Dash_With_Dashes, <<" ", "B", " ">>}

LiveTraverseInputs ==
  {[names |-> <<<<"B">>, Note_With_Dashes, <<"b">>>>, multi |-> TRUE]}

LiveNameLists == {<<NoteWithDashes, NoteZ, <<"b">>>>}

LiveOptions ==
  {NoOptions,
   [NoOptions EXCEPT !.excludeFolders = Some(<<<<"j">>>>),
                     !.tags = Some(<<<<"#", "A">>, <<"b">>>>),
                     !.limit = Some(1)]}

Next ==
  \/ \E p \in Paths, c \in Contents \cup {Absent, Unreadable} : WriteFile(p, c)
  \/ RebuildGraph
  \/ \E p \in Paths : RefreshNote(p)
  \/ \E n \in LiveResolveNames : Resolve(n)
  \/ \E in \in LiveTraverseInputs, x \in ExcludeFolderLists :
       Traverse(in, MaxDepth, x)
  \/ \E ns \in LiveNameLists : BatchResolve(ns)
  \/ \E o \in LiveOptions : Backlinks(NoteWithDashes, o)
  \/ \E ns \in LiveNameLists, o \in LiveOptions : BatchFindBacklinks(ns, o)
  \/ \E o \in LiveOptions : Orphans(o)
  \/ \E o \in LiveOptions : MissingNotes(o)
  \/ \E o \in LiveOptions : MissingNotesBySource(o)
  \/ \E o \in LiveOptions : Stats(o)
  \/ \E o \in LiveOptions : Search(<<"z", " ", "A">>, o)
  \/ \E o \in LiveOptions : FindByTag(<<"#", "A">>, o)
  \/ \E o \in LiveOptions : FindUntagged(o)
  \/ \E o \in LiveOptions : FindSimilarNames(<<"a">>, o)
  \/ Reply

Spec == Init /\ [][Next]_vars

NextBuilt ==
  \/ \E n \in ResolveNames : Resolve(n)
  \/ \E in \in TraverseInputs, d \in 0 .. MaxDepth,
         x \in ExcludeFolderLists : Traverse(in, d, x)
  \/ Reply

SpecBuilt == InitBuilt /\ [][NextBuilt]_vars

----------------------------------------------------------------------------
(* The list queries and the searches, on built vaults and with the *)
(* filter options set                                               *)

\* the vaults the queries are asked on: notes without referrers, notes that
\* link to themselves, links to notes and to files that do not exist
QueryVaults ==
  {d \in [Paths -> {Content(i) : i \in 0 .. 4} \cup {Absent}] :
     /\ d[1] \in {Absent, Content(0), Content(3), Content(4)}
     /\ d[2] \in {Absent, Content(2), Content(3)}
     /\ d[3] \in {Absent, Content(1), Content(3)}
     /\ d[4] \in {Absent, Content(1), Content(2), Content(4)}}

InitQuery == \E d \in QueryVaults : InitGraph(d)

\* no pattern, a pattern that does not compile, a pattern that excludes the
\* names with a "b"
ExcludePatterns == {Undefined, Some(<<"[">>), Some(<<"b">>)}

\* the filter and pagination options besides the exclude pattern
FilterChoices ==
  {NoOptions,
   [NoOptions EXCEPT !.tags = Some(<<<<"#", "A">>, <<"b">>>>)],
   [NoOptions EXCEPT !.folder = Some(<<"j">>)],
   [NoOptions EXCEPT !.limit = Some(1), !.offset = Some(1)]}

QueryOptions ==
  {[o EXCEPT !.excludePattern = p] : o \in FilterChoices,
                                     p \in ExcludePatterns}

\* names that resolve exactly, fuzzily and not at all
BacklinkNames == {<<"b">>, NoteWithDashes, Note_Dash_With_Dashes, NoteZ}

\* the options of the two reports on missing notes
MissingOptions ==
  {[NoOptions EXCEPT !.type = t, !.noteNames = n, !.excludePattern = p] :
     t \in {Undefined, Some("note"), Some("embed")},
     n \in {Undefined, Some(<<<<"B">>, NoteZ>>)},
     p \in {Undefined, Some(<<"[">>)}}

\* queries of two terms, of one term and of one term between blanks
SearchQueries ==
  {<<"z", " ", "A">>, <<"a", " ", " ", "B">>, <<"a", "b">>, <<" ", "b">>}

SearchOptions ==
  {[NoOptions EXCEPT !.multiTerm = m, !.includeNames = n,
                     !.excludePattern = p] :
     m \in {Undefined, Some(TRUE), Some(FALSE)},
     n \in {Undefined, Some(TRUE)},
     p \in {Undefined, Some(<<"[">>)}}

NextQuery ==
  \/ \E o \in QueryOptions : Orphans(o)
  \/ \E n \in BacklinkNames, o \in QueryOptions : Backlinks(n, o)
  \/ \E o \in MissingOptions : MissingNotes(o)
  \/ \E o \in MissingOptions : MissingNotesBySource(o)
  \/ \E q \in SearchQueries, o \in SearchOptions : Search(q, o)
  \/ \E o \in QueryOptions : FindByTag(<<"#", "A">>, o)
  \/ \E o \in QueryOptions : FindUntagged(o)
  \/ \E o \in QueryOptions : Stats(o)
  \/ Reply

SpecQuery == InitQuery /\ [][NextQuery]_vars

----------------------------------------------------------------------------
(* The pure functions, applied to inputs drawn from bounded sets *)

InitPure(x) ==
  /\ disk = [p \in Paths |-> Absent]
  /\ writes = 0
  /\ notes = EmptyMap
  /\ notesOrder = <<>>
  /\ forward = EmptyMap
  /\ backward = EmptyMap
  /\ missing = EmptyMap
  /\ fuzzyIndex = EmptyMap
  /\ published = buildGraph([p \in Paths |-> Absent])
  /\ lastMut = "buildGraph"
  /\ input = x
  /\ op = NoRequest
  /\ res = NoResult

pureFrame == <<disk, writes, graphVars, published, lastMut, input>>

InitNormalize == \E x \in StringsUpTo(NormAlphabet, MaxStrLen) : InitPure(x)

\* res.once is f(input) and res.twice is f(f(input))
ApplyNormalize ==
  /\ Idle
  /\ op' = [name |-> "normalize"]
  /\ res' = [kind |-> "normalize", once |-> normalize(input),
             twice |-> normalize(normalize(input))]
  /\ UNCHANGED pureFrame

ApplyNormalizeFuzzy ==
  /\ Idle
  /\ op' = [name |-> "normalizeFuzzy"]
  /\ res' = [kind |-> "normalizeFuzzy", once |-> normalizeFuzzy(input),
             twice |-> normalizeFuzzy(normalizeFuzzy(input))]
  /\ UNCHANGED pureFrame

NextNormalize == ApplyNormalize \/ ApplyNormalizeFuzzy

SpecNormalize == InitNormalize /\ [][NextNormalize]_vars

OptionalUpTo(n) == {Undefined} \cup {<<i>> : i \in 0 .. n}

PaginateInputs ==
  [items : {[i \in 1 .. n |-> i] : n \in 0 .. MaxItems},
   limit : OptionalUpTo(MaxLimit),
   offset : OptionalUpTo(MaxOffset)]

InitPaginate == \E x \in PaginateInputs : InitPure(x)

ApplyPaginate ==
  /\ Idle
  /\ op' = [name |-> "paginate"]
  /\ res' = paginate(input.items, [limit |-> input.limit,
                                    offset |-> input.offset])
  /\ UNCHANGED pureFrame

NextPaginate == ApplyPaginate

SpecPaginate == InitPaginate /\ [][NextPaginate]_vars

\* the tags a note of the model carries and the tags a filter lists
NoteTagNames == {<<"a">>, <<"A">>, <<"b">>}
ListedTagNames == {<<"a">>, <<"#", "A">>, <<"b">>, <<"#", "B">>, <<"c">>}

MaxNoteTags == 1
MaxListedTags == 2

SeqsUpTo(S, n) == UNION {[1 .. k -> S] : k \in 0 .. n}

\* a note that carries the given tags and nothing else
TaggedNote(fm, inl) ==
  [path |-> <<"N">>, name |-> <<"N">>, wikilinks |-> <<>>,
   frontmatterTags |-> fm, inlineTags |-> inl, mtime |-> 1,
   lines |-> <<<<>>>>]

TagsInputs ==
  [fm : SeqsUpTo(NoteTagNames, MaxNoteTags),
   inl : SeqsUpTo(NoteTagNames, MaxNoteTags),
   tags : SeqsUpTo(ListedTagNames, MaxListedTags) \ {<<>>}]

InitTags == \E x \in TagsInputs : InitPure(x)

\* the verdict of the compiled filter on the note in mode m
TagsVerdict(x, m) ==
  passesCompiledFilter(
    TaggedNote(x.fm, x.inl),
    compileFilter([NoOptions EXCEPT !.tags = Some(x.tags), !.tagsMode = m]))

\* res.all, res.any and res.default are the verdicts in the two modes and
\* with no mode given
ApplyTagsFilter ==
  /\ Idle
  /\ op' = [name |-> "passesCompiledFilter"]
  /\ res' = [kind |-> "passesCompiledFilter",
             all |-> TagsVerdict(input, Some("all")),
             any |-> TagsVerdict(input, Some("any")),
             default |-> TagsVerdict(input, Undefined)]
  /\ UNCHANGED pureFrame

NextTags == ApplyTagsFilter

SpecTags == InitTags /\ [][NextTags]_vars

\* the strings the edit distance is applied to
EditAlphabet == {"a", "b"}
MaxEditLen == 3

LevenshteinInputs ==
  [a : StringsUpTo(EditAlphabet, MaxEditLen),
   b : StringsUpTo(EditAlphabet, MaxEditLen)]

InitLevenshtein == \E x \in LevenshteinInputs : InitPure(x)

\* res.ab and res.ba are the two-row distance in both argument orders,
\* res.matrix is the full-matrix distance
ApplyLevenshtein ==
  /\ Idle
  /\ op' = [name |-> "levenshtein"]
  /\ res' = [kind |-> "levenshtein",
             ab |-> levenshtein(input.a, input.b),
             ba |-> levenshtein(input.b, input.a),
             matrix |-> levenshteinMatrix(input.a, input.b)]
  /\ UNCHANGED pureFrame

NextLevenshtein == ApplyLevenshtein

SpecLevenshtein == InitLevenshtein /\ [][NextLevenshtein]_vars

----------------------------------------------------------------------------
(* filter.ts: the date bounds of the compiled filter *)

MaxMtime == 4

\* absent, empty, three dates that parse and one string that does not
DateStrings ==
  {Undefined, Some(<<>>), Some(<<"1">>), Some(<<"2">>), Some(<<"3">>),
   Some(<<"x">>)}

DatesInputs ==
  [mtime : 0 .. MaxMtime, after : DateStrings, before : DateStrings]

InitDates == \E x \in DatesInputs : InitPure(x)

\* a note last modified at the time m
DatedNote(m) == [TaggedNote(<<>>, <<>>) EXCEPT !.mtime = m]

DateOptions(after, before) ==
  [NoOptions EXCEPT !.modifiedAfter = after, !.modifiedBefore = before]

\* res.cf is the compiled filter and res.passes its verdict on the note
ApplyDatesFilter ==
  /\ Idle
  /\ op' = [name |-> "compileFilter"]
  /\ res' = [kind |-> "compileFilter",
             cf |-> compileFilter(DateOptions(input.after, input.before)),
             passes |-> passesCompiledFilter(
                          DatedNote(input.mtime),
                          compileFilter(
                            DateOptions(input.after, input.before)))]
  /\ UNCHANGED pureFrame

NextDates == ApplyDatesFilter

SpecDates == InitDates /\ [][NextDates]_vars

----------------------------------------------------------------------------
(* Claims *)

ForwardTargets(s) == IF s \in DOMAIN forward THEN Range(forward[s]) ELSE {}

BuiltOnly == lastMut \in {"buildGraph", "rebuildGraph"}

\* C1: after buildGraph, for every note key s and every target t in
\* forward[s] exactly one of two cases holds: t is a key of notes and s is
\* in backward[t] and not in missing[t]; or t is not a key of notes and s is
\* in missing[t].
C1_AdjacencyConsistent ==
  BuiltOnly =>
    \A s \in DOMAIN notes :
      /\ s \in DOMAIN forward
      /\ \A t \in ForwardTargets(s) :
           LET present == /\ t \in DOMAIN notes
                          /\ s \in GetSet(backward, t)
                          /\ s \notin GetSet(missing, t)
               broken == /\ t \notin DOMAIN notes
                         /\ s \in GetSet(missing, t)
           IN (present \/ broken) /\ ~(present /\ broken)

\* a built graph in which one note links both to a note and to a name
\* without a note
C1_Witness ==
  /\ BuiltOnly
  /\ \E s \in DOMAIN notes :
       \E t, u \in ForwardTargets(s) :
         /\ t \in DOMAIN notes
         /\ s \in GetSet(backward, t)
         /\ u \notin DOMAIN notes
         /\ s \in GetSet(missing, u)

----------------------------------------------------------------------------

IsTraverse == op.name = "traverse"

\* the keys of the start notes of the request being served
RootKeys == {normalize(resolve(n, state).name) : n \in Range(op.noteName)}

\* the note's vault-relative path begins with an excluded folder and "/"
InExcludedFolder(k) ==
  \E f \in Range(op.excludeFolders) :
    startsWith(notes[k].path, f \o <<"/">>)

\* the keys at most d forward links away from a start note, along notes
\* that exist and lie outside the excluded folders
RECURSIVE Within(_)
Within(d) ==
  IF d = 0 THEN RootKeys
  ELSE LET near == Within(d - 1)
       IN near \cup {t \in DOMAIN notes :
                      /\ ~InExcludedFolder(t)
                      /\ \E s \in near : t \in ForwardTargets(s)}

ShortestDepth(k) ==
  CHOOSE d \in 0 .. op.maxDepth :
    k \in Within(d) /\ (d = 0 \/ k \notin Within(d - 1))

\* C2: traverse returns a note iff it is a start note or reachable from one
\* by at most maxDepth forward links through existing, non-excluded notes;
\* each returned note appears once and carries the length of the shortest
\* such path as its depth.
C2_TraverseIsBfs ==
  (IsTraverse /\ res.error = <<>>) =>
    /\ {normalize(res.notes[i].name) : i \in DOMAIN res.notes}
         = Within(op.maxDepth)
    /\ \A i \in DOMAIN res.notes :
         LET k == normalize(res.notes[i].name) IN
         /\ res.notes[i].name = notes[k].name
         /\ res.notes[i].path = notes[k].path
         /\ res.notes[i].depth = ShortestDepth(k)
    /\ \A i, j \in DOMAIN res.notes :
         i # j => normalize(res.notes[i].name) # normalize(res.notes[j].name)

\* a chain of three notes: the third is returned at depth 2 and was not
\* within one link of the start
C2_Witness ==
  /\ IsTraverse
  /\ res.error = <<>>
  /\ op.maxDepth = 2
  /\ Len(op.noteName) = 1
  /\ \E i, j \in DOMAIN res.notes :
       /\ res.notes[i].depth = 1
       /\ res.notes[j].depth = 2
       /\ normalize(res.notes[j].name) \notin Within(1)

----------------------------------------------------------------------------

IsResolve == op.name = "resolve"

HoldsNoteWithUnderscores ==
  /\ normalize(Note_With_Dashes) \in DOMAIN notes
  /\ notes[normalize(Note_With_Dashes)].name = Note_With_Dashes

NoExactMatch == normalize(op.noteName) \notin DOMAIN notes

\* C4 as stated: with a note Note_With_Dashes and no exact match of the
\* query, resolve("Note-With-Dashes") and resolve("note with dashes") both
\* return that note, and resolve("NoteZ") returns not-found.
C4_Original ==
  (IsResolve /\ HoldsNoteWithUnderscores /\ NoExactMatch) =>
    /\ op.noteName \in {Note_Dash_With_Dashes, note_with_dashes_spaced}
         => res.note = notes[normalize(Note_With_Dashes)]
    /\ op.noteName = NoteZ => res.note = Null

\* C4 amended: resolve("Note-With-Dashes") returns the note registered
\* first under the fuzzy form "notewithdashes", which is Note_With_Dashes
\* when no earlier note shares that form; resolve("note with dashes") is
\* not-found while no note has the fuzzy form "note with dashes", because
\* spaces are kept; resolve("NoteZ") is not-found.
C4_FuzzyKeepsSpaces ==
  (IsResolve /\ HoldsNoteWithUnderscores /\ NoExactMatch) =>
    /\ op.noteName = Note_Dash_With_Dashes =>
         /\ res.note = notes[fuzzyIndex[normalizeFuzzy(Note_With_Dashes)]]
         /\ fuzzyIndex[normalizeFuzzy(Note_With_Dashes)]
               = normalize(Note_With_Dashes)
             => res.note.name = Note_With_Dashes
    /\ (/\ op.noteName = note_with_dashes_spaced
        /\ \A k \in DOMAIN notes :
             normalizeFuzzy(notes[k].name) # note_with_dashes_spaced)
         => res.note = Null
    /\ op.noteName = NoteZ => res.note = Null

\* the dashed query finds Note_With_Dashes
C4_Witness ==
  /\ IsResolve
  /\ HoldsNoteWithUnderscores
  /\ NoExactMatch
  /\ op.noteName = Note_Dash_With_Dashes
  /\ res.note # Null
  /\ res.note.name = Note_With_Dashes

----------------------------------------------------------------------------

\* C5 as stated: normalize and normalizeFuzzy are both idempotent on every
\* input string.
C5_NormalizationIdempotent ==
  op.name \in {"normalize", "normalizeFuzzy"} => res.twice = res.once

----------------------------------------------------------------------------

Unresolved(names) == {i \in DOMAIN names : resolve(names[i], state) = Null}

\* C6: if a start name does not resolve, traverse returns an error naming
\* the first such name in input order, with empty notes and missing lists.
C6_TraverseFailsFast ==
  (IsTraverse /\ Unresolved(op.noteName) # {}) =>
    LET first == CHOOSE i \in Unresolved(op.noteName) :
                   \A j \in Unresolved(op.noteName) : i <= j
    IN /\ res.error = <<op.noteName[first]>>
       /\ res.notes = <<>>
       /\ res.missing = <<>>

\* the first start name resolves, two later ones do not
C6_Witness ==
  /\ IsTraverse
  /\ Cardinality(Unresolved(op.noteName)) = 2
  /\ 1 \notin Unresolved(op.noteName)
  /\ res.error = <<op.noteName[2]>>
  /\ res.notes = <<>>

----------------------------------------------------------------------------

IsRefresh == op.name = "refreshNote"

\* C7: after the initial build, the upsert of a newly written file makes
\* its note resolvable by its name and adds its key to backward[t] for every
\* target t it links to, and to missing[t] when t has no note.
C7_UpsertOfNewFile ==
  (IsRefresh /\ op.isNew) =>
    LET name == FileName(op.path)
        key == normalize(name)
    IN /\ resolve(name, state) # Null
       /\ resolve(name, state).path = FilePath(op.path)
       /\ resolve(name, state).wikilinks = disk[op.path].wikilinks
       /\ \A i \in DOMAIN disk[op.path].wikilinks :
            LET t == normalize(disk[op.path].wikilinks[i].name) IN
            /\ key \in GetSet(backward, t)
            /\ t \notin DOMAIN notes => key \in GetSet(missing, t)

\* a file written after the build, linking to a note and to a name without
\* a note, has been upserted
C7_Witness ==
  /\ IsRefresh
  /\ op.isNew
  /\ writes > 0
  /\ \E i, j \in DOMAIN disk[op.path].wikilinks :
       /\ normalize(disk[op.path].wikilinks[i].name) \in DOMAIN notes
       /\ normalize(disk[op.path].wikilinks[j].name) \notin DOMAIN notes

----------------------------------------------------------------------------
QueryOperations ==
  {"resolve", "batchResolve", "backlinks", "batchFindBacklinks", "orphans",
   "missingNotes", "missingNotesBySource", "traverse", "stats", "search",
   "findByTag", "findUntagged", "findSimilarNames"}

GraphMutations == {"rebuildGraph", "refreshNote"}

\* C8: every step that serves a query or search operation (resolve,
\* batchResolve, backlinks, batchFindBacklinks, orphans, missingNotes,
\* missingNotesBySource, traverse, stats, search, findByTag, findUntagged,
\* findSimilarNames) leaves notes, forward, backward, missing and fuzzyIndex
\* as they were, and a step that changes any of them is a rebuildGraph or a
\* single-note upsert (buildGraph makes the initial graph).
C8_QueriesLeaveGraphUnchanged ==
  [][/\ op'.name \in QueryOperations => UNCHANGED graphVars
     /\ graphVars' # graphVars =>
          /\ op'.name \in GraphMutations
          /\ lastMut' = op'.name]_vars

\* a query answered with a non-empty page on a graph an upsert has changed
C8_Witness ==
  /\ op.name = "backlinks"
  /\ res.page.total > 0
  /\ lastMut = "refreshNote"
  /\ \E k \in DOMAIN notes : notes[k].wikilinks # <<>>

----------------------------------------------------------------------------

----------------------------------------------------------------------------

\* C10: paginate returns total = the length of items, echoes offset and
\* limit (0 and 50 by default) and returns the elements
\* items[offset .. offset+limit-1] that exist, in order; an offset at or
\* beyond the length gives no results.
C10_Paginate ==
  op.name = "paginate" =>
    LET items == input.items
        off == IF input.offset = <<>> THEN 0 ELSE input.offset[1]
        lim == IF input.limit = <<>> THEN 50 ELSE input.limit[1]
        kept == {j \in 1 .. Len(items) : off < j /\ j <= off + lim}
    IN /\ res.total = Len(items)
       /\ res.offset = off
       /\ res.limit = lim
       /\ res.results = [i \in 1 .. Cardinality(kept) |-> items[off + i]]
       /\ off >= Len(items) => res.results = <<>>

\* paginate([1..5], {limit: 3, offset: 2}) is [3, 4, 5] of 5
C10_Witness ==
  /\ op.name = "paginate"
  /\ input.offset = <<2>>
  /\ input.limit = <<3>>
  /\ res.total = 5
  /\ res.results = <<3, 4, 5>>

----------------------------------------------------------------------------

\* a listed tag, lowercased and without its leading '#', equals some tag of
\* the note case-insensitively
ListedTagOnNote(t, x) ==
  \E nt \in Range(x.fm) \cup Range(x.inl) :
    toLowerCase(nt) = toLowerCase(StripHash(t))

\* C11: with a non-empty tags list, mode "all" accepts a note iff every
\* listed tag (lowercased, leading '#' stripped) equals case-insensitively
\* some frontmatter or inline tag of the note, mode "any" and the default
\* mode iff at least one does; what "all" accepts "any" accepts, and the two
\* modes agree for a list of one tag.
C11_TagModes ==
  op.name = "passesCompiledFilter" =>
    /\ res.all = (\A i \in DOMAIN input.tags :
                    ListedTagOnNote(input.tags[i], input))
    /\ res.any = (\E i \in DOMAIN input.tags :
                    ListedTagOnNote(input.tags[i], input))
    /\ res.default = res.any
    /\ res.all => res.any
    /\ Len(input.tags) = 1 => res.all = res.any

\* a note tagged A in its frontmatter and b inline, asked for "#B" and "a":
\* accepted in both modes; the same note asked for "a" and "c" is accepted
\* in "any" only
C11_Witness ==
  /\ op.name = "passesCompiledFilter"
  /\ input.fm = <<<<"A">>>>
  /\ input.inl = <<<<"b">>>>
  /\ input.tags = <<<<"#", "B">>, <<"a">>>>
  /\ res.all /\ res.any

----------------------------------------------------------------------------

\* the strings one insertion, deletion or substitution away from s, none
\* longer than cap
OneEdit(s, cap) ==
  {SubSeq(s, 1, i - 1) \o SubSeq(s, i + 1, Len(s)) : i \in 1 .. Len(s)}
  \cup {[s EXCEPT ![i] = c] : i \in 1 .. Len(s), c \in EditAlphabet}
  \cup IF Len(s) >= cap THEN {}
       ELSE {SubSeq(s, 1, i) \o <<c>> \o SubSeq(s, i + 1, Len(s)) :
               i \in 0 .. Len(s), c \in EditAlphabet}

\* the classic edit distance: the least number of single-character edits
\* that turn a into b
EditDistance(a, b) ==
  LET cap == IF Len(a) < Len(b) THEN Len(b) ELSE Len(a)
      EditsWithin[k \in 0 .. cap] ==
        IF k = 0 THEN {a}
        ELSE EditsWithin[k - 1]
             \cup UNION {OneEdit(s, cap) : s \in EditsWithin[k - 1]}
  IN CHOOSE k \in 0 .. cap :
       /\ b \in EditsWithin[k]
       /\ \A h \in 0 .. k - 1 : b \notin EditsWithin[h]

\* C13: levenshtein(a, b) is the classic edit distance (insertion, deletion
\* and substitution cost 1 each): the two-row implementation that makes the
\* longer string the outer loop returns what the full-matrix implementation
\* returns, is symmetric, is 0 for equal strings and is the other string's
\* length when one string is empty.
C13_Levenshtein ==
  op.name = "levenshtein" =>
    /\ res.ab = EditDistance(input.a, input.b)
    /\ res.ab = res.matrix
    /\ res.ab = res.ba
    /\ input.a = input.b => res.ab = 0
    /\ input.a = <<>> => res.ab = Len(input.b)
    /\ input.b = <<>> => res.ab = Len(input.a)

\* levenshtein("ab", "bab") = 1: the shorter string comes first, so the
\* arguments are swapped
C13_Witness ==
  /\ op.name = "levenshtein"
  /\ input.a = <<"a", "b">>
  /\ input.b = <<"b", "a", "b">>
  /\ res.ab = 1
  /\ res.matrix = 1

----------------------------------------------------------------------------

\* the operations that take the filter options
FilteredQueries ==
  {"orphans", "backlinks", "missingNotes", "missingNotesBySource",
   "search", "findByTag", "findUntagged", "stats"}

\* the request at hand carries an exclude pattern that does not compile
HasInvalidPattern ==
  /\ op.name \in FilteredQueries
  /\ TruthyString(op.opts.excludePattern)
  /\ ~RegExpCompiles(op.opts.excludePattern[1])

\* what the operation of the request at hand returns on the present graph
\* with the options o
AnswerWith(o) ==
  CASE op.name = "orphans" ->
         [kind |-> "orphans", page |-> orphans(state, o)]
    [] op.name = "backlinks" ->
         [kind |-> "backlinks", page |-> backlinks(op.noteName, state, o)]
    [] op.name = "missingNotes" ->
         [kind |-> "missingNotes", page |-> missingNotes(state, o)]
    [] op.name = "missingNotesBySource" ->
         [kind |-> "missingNotesBySource",
          page |-> missingNotesBySource(state, o)]
    [] op.name = "search" ->
         [kind |-> "search", page |-> search(op.query, state, o)]
    [] op.name = "findByTag" ->
         [kind |-> "findByTag", page |-> findByTag(op.tag, state, o)]
    [] op.name = "findUntagged" ->
         [kind |-> "findUntagged", page |-> findUntagged(state, o)]
    [] op.name = "stats" ->
         [kind |-> "stats", value |-> stats(state, o)]

WithoutPattern == [op.opts EXCEPT !.excludePattern = Undefined]

\* C12 as stated: every operation that takes the filter options, orphans
\* included, returns with an exclude pattern that does not compile what it
\* returns with no exclude pattern and otherwise identical options.
C12_Original ==
  HasInvalidPattern => res = AnswerWith(WithoutPattern)

\* C12: backlinks, missingNotes, missingNotesBySource, search, findByTag,
\* findUntagged and stats return with an exclude pattern that does not
\* compile what they return with no exclude pattern and otherwise identical
\* options; orphans returns an empty page of total 0 that echoes offset and
\* limit; every one of them returns a result.
C12_InvalidPatternIgnoredButByOrphans ==
  HasInvalidPattern =>
    /\ res.kind = op.name
    /\ op.name # "orphans" => res = AnswerWith(WithoutPattern)
    /\ op.name = "orphans" =>
         res.page = [total |-> 0,
                     offset |-> OrElse(op.opts.offset, DefaultOffset),
                     limit |-> OrElse(op.opts.limit, DefaultLimit),
                     results |-> <<>>]

\* backlinks of "b" with the pattern "[" lists a note that the pattern "b"
\* would exclude
C12_Witness ==
  /\ HasInvalidPattern
  /\ op.name = "backlinks"
  /\ res.page.total > 0
  /\ res # AnswerWith([op.opts EXCEPT !.excludePattern = Some(<<"b">>)])

----------------------------------------------------------------------------

\* the places <<i, j>> of the whitespace-separated terms of q
TermSpans(q) ==
  {s \in (1 .. Len(q)) \X (1 .. Len(q)) :
     /\ s[1] <= s[2]
     /\ \A k \in s[1] .. s[2] : ~IsWhiteSpace(q[k])
     /\ s[1] = 1 \/ IsWhiteSpace(q[s[1] - 1])
     /\ s[2] = Len(q) \/ IsWhiteSpace(q[s[2] + 1])}

\* text contains q, letter case ignored
ContainsIgnoringCase(text, q) ==
  \E i \in 0 .. Len(text) - Len(q) :
    \A k \in 1 .. Len(q) : LowerChar(text[i + k]) = LowerChar(q[k])

IsPlainSearch ==
  /\ op.name = "search"
  /\ op.opts.regex \in {Undefined, Some(FALSE)}
  /\ op.opts.wholeWord \in {Undefined, Some(FALSE)}

\* the search at hand treats its query as a list of alternatives
IsMultiTermSearch ==
  /\ op.opts.multiTerm # Some(FALSE)
  /\ Cardinality(TermSpans(op.query)) > 1

\* what C14 says of a text: hit or not
SearchShouldMatch(text) ==
  IF IsMultiTermSearch
  THEN \E s \in TermSpans(op.query) :
         ContainsIgnoringCase(text, SubSeq(op.query, s[1], s[2]))
  ELSE ContainsIgnoringCase(text, op.query)

\* the hits C14 expects, as <<note key, line number>>; 0 is the name
SearchShouldHit ==
  LET inScope == Range(filterNotes(state, op.opts)) IN
  UNION {{<<k, j>> : j \in {j \in 0 .. Len(notes[k].lines) :
                               IF j = 0
                               THEN /\ op.opts.includeNames = Some(TRUE)
                                    /\ SearchShouldMatch(notes[k].name)
                               ELSE SearchShouldMatch(notes[k].lines[j])}} :
           k \in inScope}

\* C14: with regex and wholeWord off, a search with multiTerm on (the
\* default) and a query of more than one whitespace-separated term hits a
\* line iff at least one term is a case-insensitive substring of it; with
\* multiTerm off it hits a line iff the whole query is a case-insensitive
\* substring; a query of one term gives the same page in both modes.
C14_MultiTermSearch ==
  (IsPlainSearch /\ op.opts.limit = Undefined /\ op.opts.offset = Undefined)
  =>
    /\ {<<normalize(res.page.results[i].file), res.page.results[i].line>> :
          i \in DOMAIN res.page.results} = SearchShouldHit
    /\ res.page.total = Cardinality(SearchShouldHit)
    /\ Cardinality(TermSpans(op.query)) = 1 =>
         /\ res.page = search(op.query, state,
                              [op.opts EXCEPT !.multiTerm = Some(TRUE)])
         /\ res.page = search(op.query, state,
                              [op.opts EXCEPT !.multiTerm = Some(FALSE)])

\* "z A" hits a line with a "z" and no "a" in one note and a line with an
\* "a" and no "z" in another; with multiTerm off it hits nothing
C14_Witness ==
  /\ IsPlainSearch
  /\ op.query = <<"z", " ", "A">>
  /\ op.opts.multiTerm = Undefined
  /\ \E i, j \in DOMAIN res.page.results :
       LET h == res.page.results[i]
           g == res.page.results[j]
       IN /\ h.file # g.file
          /\ "z" \in Range(h.text) /\ "a" \notin Range(toLowerCase(h.text))
          /\ "a" \in Range(toLowerCase(g.text)) /\ "z" \notin Range(g.text)
  /\ search(op.query, state,
            [op.opts EXCEPT !.multiTerm = Some(FALSE)]).total = 0

----------------------------------------------------------------------------

\* page is the slice [offset, offset + limit) of the notes with the given
\* keys in ascending order of their names, each once, and its total is
\* their number
PageListsNotes(page, keys, opts) ==
  LET off == OrElse(opts.offset, DefaultOffset)
      lim == OrElse(opts.limit, DefaultLimit)
      rest == Cardinality(keys) - off
      names == {notes[k].name : k \in keys}
  IN /\ page.total = Cardinality(keys)
     /\ page.offset = off
     /\ page.limit = lim
     /\ Len(page.results) = IF rest < 0 THEN 0
                            ELSE IF rest < lim THEN rest ELSE lim
     /\ \A i \in DOMAIN page.results :
          /\ normalize(page.results[i].name) \in keys
          /\ page.results[i].name = notes[normalize(page.results[i].name)].name
          /\ Cardinality({n \in names :
                            localeCompare(n, page.results[i].name) < 0})
               = off + i - 1

\* the notes without a referrer that pass the filter options
UnreferencedInScope ==
  {k \in DOMAIN notes :
     /\ passesCompiledFilter(notes[k], compileFilter(op.opts))
     /\ k \notin DOMAIN backward \/ backward[k] = {}}

\* no note of the page has a referrer
NoReferrerOnPage ==
  \A i \in DOMAIN res.page.results :
    LET k == normalize(res.page.results[i].name)
    IN k \notin DOMAIN backward \/ backward[k] = {}

\* C15 as stated: whatever the options, orphans returns exactly the notes
\* that pass the filter options and have an empty or absent backward set,
\* sorted by name and paginated.
C15_Original ==
  op.name = "orphans" =>
    /\ PageListsNotes(res.page, UnreferencedInScope, op.opts)
    /\ NoReferrerOnPage

\* C15: given no exclude pattern or one that compiles, orphans returns
\* exactly the notes that pass the filter options and whose backward set is
\* empty or absent, sorted by name ascending and then paginated; given an
\* exclude pattern that does not compile it returns no note at all; a note
\* with a referrer in backward is never returned.
C15_Orphans ==
  op.name = "orphans" =>
    /\ ~HasInvalidPattern =>
         PageListsNotes(res.page, UnreferencedInScope, op.opts)
    /\ HasInvalidPattern => res.page.total = 0 /\ res.page.results = <<>>
    /\ NoReferrerOnPage

\* two orphans in name order on a vault that has a note with a referrer
C15_Witness ==
  /\ op.name = "orphans"
  /\ ~HasInvalidPattern
  /\ Len(res.page.results) >= 2
  /\ \E k \in DOMAIN notes : k \in DOMAIN backward /\ backward[k] # {}

----------------------------------------------------------------------------

\* the notes that no other note links to
NotLinkedByOthers ==
  {k \in DOMAIN notes :
     \A s \in DOMAIN notes \ {k} : k \notin Range(forward[s])}

\* C16: find_orphans reports the notes that have no incoming links from
\* other notes: asked without filter options it lists exactly the notes
\* that no other note links to, a note whose only referrer is itself
\* included.
C16_SelfLinkIsNoIncomingLink ==
  (op.name = "orphans" /\ op.opts = NoOptions) =>
    {normalize(res.page.results[i].name) : i \in DOMAIN res.page.results}
      = NotLinkedByOthers

----------------------------------------------------------------------------

\* the notes in scope of the request at hand whose forward links hold key
LinkingInScope(key) ==
  {s \in DOMAIN notes :
     /\ key \in Range(forward[s])
     /\ passesCompiledFilter(notes[s],
          compileFilter([op.opts EXCEPT !.folder = Undefined]))
     /\ TruthyString(op.opts.folder) =>
          startsWith(notes[s].path, ensureTrailingSlash(op.opts.folder[1]))}

\* C17: for a name that resolves, exactly or fuzzily, to a note n,
\* backlinks returns exactly the notes s with key(n) in forward[s] that pass
\* the filter options and the folder restriction, each once, sorted by name
\* ascending and paginated, the total counted before slicing; for a name
\* that does not resolve it returns an empty page of total 0.
C17_Backlinks ==
  op.name = "backlinks" =>
    LET n == resolve(op.noteName, state) IN
    IF n = Null
    THEN /\ res.page.total = 0
         /\ res.page.results = <<>>
    ELSE /\ PageListsNotes(res.page, LinkingInScope(normalize(n.name)),
                           op.opts)
         /\ \A i \in DOMAIN res.page.results :
              res.page.results[i].path
                = Some(notes[normalize(res.page.results[i].name)].path)

\* "Note-With-Dashes" is no note's key and resolves fuzzily; the second of
\* three referrers is the page asked for
C17_Witness ==
  /\ op.name = "backlinks"
  /\ op.noteName = Note_Dash_With_Dashes
  /\ normalize(op.noteName) \notin DOMAIN notes
  /\ op.opts.offset = Some(1)
  /\ res.page.total = 3
  /\ Len(res.page.results) = 1

----------------------------------------------------------------------------

\* the <<referring note, missing target>> pairs of the entries of
\* missingNotes and of missingNotesBySource
PairsByTarget(entries) ==
  UNION {{<<entries[i].referenced_by[j], entries[i].name>> :
            j \in DOMAIN entries[i].referenced_by} : i \in DOMAIN entries}

PairsBySource(entries) ==
  UNION {{<<normalize(entries[i].source), entries[i].broken_links[j].name>> :
            j \in DOMAIN entries[i].broken_links} : i \in DOMAIN entries}

IsUnpaginated(opts) == opts.limit = Undefined /\ opts.offset = Undefined

\* C18: for identical type, noteNames and filter options the unpaginated
\* entries of missingNotesBySource and of missingNotes hold the same
\* (referring note, missing target) pairs, the count of a by-source entry is
\* the number of its broken links, and the by-source entries are ordered by
\* count descending and then by source name ascending.
C18_MissingBySource ==
  (op.name = "missingNotesBySource" /\ IsUnpaginated(op.opts)) =>
    LET bySource == res.page.results
        byTarget == missingNotes(state, op.opts).results
    IN /\ PairsBySource(bySource) = PairsByTarget(byTarget)
       /\ \A i \in DOMAIN bySource :
            bySource[i].count = Len(bySource[i].broken_links)
       /\ \A i, j \in DOMAIN bySource :
            i < j =>
              \/ bySource[i].count > bySource[j].count
              \/ /\ bySource[i].count = bySource[j].count
                 /\ localeCompare(bySource[i].source, bySource[j].source) < 0

\* a note with two broken links, one of them an embed of a file, before two
\* notes with one broken link each
C18_Witness ==
  /\ op.name = "missingNotesBySource"
  /\ op.opts.type = Undefined
  /\ Len(res.page.results) = 3
  /\ res.page.results[1].count = 2
  /\ \E j \in 1 .. 2 : res.page.results[1].broken_links[j].is_embed
  /\ res.page.results[2].count = 1
  /\ res.page.results[3].count = 1
  /\ missingNotes(state, op.opts).total = 2

----------------------------------------------------------------------------

\* the step at hand is the upsert of the file at path p
IsUpsertStep(p) == Idle /\ op'.name = "refreshNote" /\ op'.path = p

\* the keys the file at path p links to
LinkedKeys(p) ==
  {normalize(disk[p].wikilinks[i].name) : i \in DOMAIN disk[p].wikilinks}

AllTargetKeys ==
  DOMAIN backward \cup DOMAIN missing \cup DOMAIN backward'
    \cup DOMAIN missing'

\* C19: the upsert of a note s that already exists and whose links changed
\* on disk removes the old contributions of s before it adds the new ones:
\* afterwards forward[s] is exactly the new target set, s is in backward[t]
\* exactly for the targets t it links to now, s is in missing[t] exactly for
\* those of them that have no note, and the backward and missing entries of
\* a dropped target no longer list s.
C19_UpsertReplacesContributions ==
  [][\A p \in Paths :
       LET s == normalize(FileName(p))
           old == IF s \in DOMAIN forward THEN Range(forward[s]) ELSE {}
           new == LinkedKeys(p)
       IN (IsUpsertStep(p) /\ s \in DOMAIN notes /\ old # new) =>
            /\ Range(forward'[s]) = new
            /\ Len(forward'[s]) = Cardinality(new)
            /\ \A t \in AllTargetKeys \cup new :
                 /\ s \in GetSet(backward', t) <=> t \in new
                 /\ s \in GetSet(missing', t)
                      <=> (t \in new /\ t \notin DOMAIN notes')
            /\ \A t \in old \ new :
                 /\ s \notin GetSet(backward', t)
                 /\ s \notin GetSet(missing', t)]_vars

\* an existing note has been upserted after its file was rewritten with
\* other links; it was the
\* only referrer of a target it dropped, a name without a note, and it links
\* to a target it did not link to before
C19_Witness ==
  /\ IsRefresh
  /\ op.existed
  /\ ~op.isNew
  /\ writes > 0
  /\ LET s == normalize(FileName(op.path))
         old == Range(op.oldTargets)
         new == Range(forward[s])
     IN /\ \E t \in old \ new :
             /\ t \notin DOMAIN notes
             /\ GetSet(backward, t) = {}
             /\ GetSet(missing, t) = {}
        /\ new \ old # {}

\* C20: the upsert of note s changes only the entries that concern s: the
\* notes entry and the forward set of every other key, and the membership of
\* every other source key in every backward and missing set, are the same
\* before and after.
C20_UpsertLeavesOthers ==
  [][\A p \in Paths :
       LET s == normalize(FileName(p)) IN
       IsUpsertStep(p) =>
         /\ DOMAIN notes' \ {s} = DOMAIN notes \ {s}
         /\ DOMAIN forward' \ {s} = DOMAIN forward \ {s}
         /\ \A k \in DOMAIN notes \ {s} :
              notes'[k] = notes[k] /\ forward'[k] = forward[k]
         /\ \A t \in AllTargetKeys :
              /\ GetSet(backward', t) \ {s} = GetSet(backward, t) \ {s}
              /\ GetSet(missing', t) \ {s} = GetSet(missing, t) \ {s}]_vars

\* an upsert that changed the links of its note on a graph where another
\* note has links of its own and shares a target with the upserted one
C20_Witness ==
  /\ IsRefresh
  /\ writes > 0
  /\ LET s == normalize(FileName(op.path)) IN
     /\ Range(op.oldTargets) # Range(forward[s])
     /\ \E k \in DOMAIN notes \ {s} : forward[k] # <<>>
     /\ \E t \in DOMAIN backward :
          s \in backward[t] /\ backward[t] \ {s} # {}

----------------------------------------------------------------------------

\* no key of missing is a key of notes
MissingKeysAreNoNotes == \A t \in DOMAIN missing : t \notin DOMAIN notes

\* s is in backward[t] iff t is in forward[s]
BackwardInvertsForward ==
  /\ \A t \in DOMAIN backward : \A s \in backward[t] :
       s \in DOMAIN forward /\ t \in Range(forward[s])
  /\ \A s \in DOMAIN forward : \A t \in Range(forward[s]) :
       s \in GetSet(backward, t)

\* for every t that is not a note, missing[t] equals backward[t]
MissingIsBackwardOffNotes ==
  \A t \in (DOMAIN missing \cup DOMAIN backward) \ DOMAIN notes :
    GetSet(missing, t) = GetSet(backward, t)

\* every source key of forward, backward and missing is a key of notes
SourcesAreNotes ==
  /\ DOMAIN forward \subseteq DOMAIN notes
  /\ \A t \in DOMAIN backward : backward[t] \subseteq DOMAIN notes
  /\ \A t \in DOMAIN missing : missing[t] \subseteq DOMAIN notes

\* C21: after any sequence of buildGraph, rebuildGraph and upsert operations
\* the graph is structurally consistent: no key of missing is a key of
\* notes, s is in backward[t] iff t is in forward[s], missing[t] equals
\* backward[t] for every t that is not a note, and every source key
\* occurring in forward, backward or missing is a key of notes.
C21_StructurallyConsistent ==
  /\ MissingKeysAreNoNotes
  /\ BackwardInvertsForward
  /\ MissingIsBackwardOffNotes
  /\ SourcesAreNotes

----------------------------------------------------------------------------

\* C22: orphans called with an exclude pattern that does not compile returns
\* total 0 and no results, with the requested or else the default offset and
\* limit, whatever the graph holds.
C22_OrphansInvalidPattern ==
  (op.name = "orphans" /\ HasInvalidPattern) =>
    /\ res.page.total = 0
    /\ res.page.results = <<>>
    /\ res.page.offset =
         (IF op.opts.offset = Undefined THEN DefaultOffset
          ELSE op.opts.offset[1])
    /\ res.page.limit =
         (IF op.opts.limit = Undefined THEN DefaultLimit
          ELSE op.opts.limit[1])

\* the graph holds a note that orphans lists when the pattern is left out
C22_Witness ==
  /\ op.name = "orphans"
  /\ HasInvalidPattern
  /\ orphans(state, WithoutPattern).total > 0
  /\ res.page.total = 0

----------------------------------------------------------------------------

\* a date string that is given and is empty or does not parse
IsUnparsable(s) == s # Undefined /\ (s[1] = <<>> \/ ~newDate(s[1]).valid)

\* C23: for a modifiedAfter or modifiedBefore string that is empty or does
\* not parse, compileFilter yields an absent (undefined) bound, and the
\* compiled filter accepts the note exactly when it accepts it with that
\* option left out, whatever the note's mtime.
C23_UnparsableDateIsNoBound ==
  op.name = "compileFilter" =>
    /\ IsUnparsable(input.after) =>
         /\ res.cf.modifiedAfter = Undefined
         /\ res.passes =
              passesCompiledFilter(
                DatedNote(input.mtime),
                compileFilter(DateOptions(Undefined, input.before)))
    /\ IsUnparsable(input.before) =>
         /\ res.cf.modifiedBefore = Undefined
         /\ res.passes =
              passesCompiledFilter(
                DatedNote(input.mtime),
                compileFilter(DateOptions(input.after, Undefined)))

\* the half of C23 about the verdict alone
C23_VerdictOnly ==
  op.name = "compileFilter" =>
    /\ IsUnparsable(input.after) =>
         res.passes =
           passesCompiledFilter(
             DatedNote(input.mtime),
             compileFilter(DateOptions(Undefined, input.before)))
    /\ IsUnparsable(input.before) =>
         res.passes =
           passesCompiledFilter(
             DatedNote(input.mtime),
             compileFilter(DateOptions(input.after, Undefined)))

----------------------------------------------------------------------------

\* the returned notes whose path begins with an excluded folder and "/"
ReturnedFromExcluded ==
  {i \in DOMAIN res.notes :
     \E f \in Range(op.excludeFolders) :
       startsWith(res.notes[i].path, f \o <<"/">>)}

----------------------------------------------------------------------------

\* the keys of the start notes in the order of the request, each once
RootOrder ==
  Dedup([i \in DOMAIN op.noteName |->
           normalize(resolve(op.noteName[i], state).name)])

\* the keys first reached at depth d, in the order in which the notes of
\* depth d - 1 and their forward targets are gone through
RECURSIVE LayerOrder(_)
LayerOrder(d) ==
  IF d = 0 THEN RootOrder
  ELSE
    LET before == UNION {Range(LayerOrder(e)) : e \in 0 .. d - 1}
        sources == LayerOrder(d - 1)
        found == Flatten([i \in DOMAIN sources |->
                   SelectSeq(
                     IF sources[i] \in DOMAIN forward
                     THEN forward[sources[i]] ELSE <<>>,
                     LAMBDA t : /\ t \in DOMAIN notes
                                /\ ~InExcludedFolder(t)
                                /\ t \notin before)])
    IN Dedup(found)

\* the notes that are expanded, in the order of their expansion
ExpansionOrder ==
  Flatten([e \in 1 .. op.maxDepth |-> LayerOrder(e - 1)])

\* the link type that the first expanded note linking to k has for k
FirstLinkType(k) ==
  LET at == {i \in DOMAIN ExpansionOrder :
               k \in ForwardTargets(ExpansionOrder[i])}
      first == CHOOSE i \in at : \A j \in at : i <= j
      wl == FindLink(notes[ExpansionOrder[first]].wikilinks, k)
  IN IF at = {} \/ wl = Null THEN "null"
     ELSE IF wl.embed THEN "embed" ELSE "wikilink"

\* the second half of C25: a returned note that is no start note carries
\* the type of the link of the first expanded note that points to it
C25_NonRootLinkType ==
  (IsTraverse /\ res.error = <<>>) =>
    \A i \in DOMAIN res.notes :
      normalize(res.notes[i].name) \notin RootKeys =>
        /\ res.notes[i].link_type \in {"embed", "wikilink"}
        /\ res.notes[i].link_type =
             FirstLinkType(normalize(res.notes[i].name))

\* C25: a returned note has link_type null if and only if it is a start
\* note, also when a visited note links back to a start note or one start
\* note links to another; every other returned note carries "embed" or
\* "wikilink", taken from the link of the first expanded note that points
\* to it.
C25_LinkTypeNullIffRoot ==
  (IsTraverse /\ res.error = <<>>) =>
    \A i \in DOMAIN res.notes :
      LET k == normalize(res.notes[i].name) IN
      /\ res.notes[i].link_type = "null" <=> k \in RootKeys
      /\ k \notin RootKeys =>
           /\ res.notes[i].link_type \in {"embed", "wikilink"}
           /\ res.notes[i].link_type = FirstLinkType(k)

\* what the start notes carry: the type of the first link to them that an
\* expanded note has, and null when no expanded note links to them
C25_RootLinkType ==
  (IsTraverse /\ res.error = <<>>) =>
    \A i \in DOMAIN res.notes :
      normalize(res.notes[i].name) \in RootKeys =>
        res.notes[i].link_type =
          (IF InExcludedFolder(normalize(res.notes[i].name)) THEN "null"
           ELSE FirstLinkType(normalize(res.notes[i].name)))

----------------------------------------------------------------------------

\* the keys of the returned notes that were expanded
ExpandedKeys ==
  {normalize(res.notes[i].name) :
     i \in {j \in DOMAIN res.notes : res.notes[j].depth < op.maxDepth}}

\* the targets without a note that an expanded note links to
MissingFromExpanded ==
  {t \in UNION {ForwardTargets(s) : s \in ExpandedKeys} :
     t \notin DOMAIN notes}

\* C26: traverse's missing list holds exactly the link targets without a
\* note that a note expanded in the traversal (visited at depth < maxDepth)
\* links to; each is listed once, is not among the returned notes, and its
\* referenced_by is the graph's whole referrer set missing[target], the
\* referrers that were not visited included.
C26_TraverseMissing ==
  (IsTraverse /\ res.error = <<>>) =>
    /\ {res.missing[i].name : i \in DOMAIN res.missing} = MissingFromExpanded
    /\ \A i, j \in DOMAIN res.missing :
         i # j => res.missing[i].name # res.missing[j].name
    /\ \A i \in DOMAIN res.missing :
         /\ \A j \in DOMAIN res.notes :
              normalize(res.notes[j].name) # res.missing[i].name
         /\ res.missing[i].referenced_by = GetSet(missing, res.missing[i].name)
         /\ res.missing[i].referenced_by =
              {s \in DOMAIN notes : res.missing[i].name \in ForwardTargets(s)}

\* a missing target is reported with a referrer that was not returned
C26_Witness ==
  /\ IsTraverse
  /\ res.error = <<>>
  /\ op.maxDepth > 0
  /\ \E i \in DOMAIN res.missing :
       \E s \in res.missing[i].referenced_by :
         \A j \in DOMAIN res.notes : normalize(res.notes[j].name) # s

----------------------------------------------------------------------------

\* the loop of the traversal being served, run to its end: the queue with
\* every entry it ever received, and the keys in the order of their visit
TraverseRun ==
  BfsLoop(1, op.maxDepth, state,
          MapSeq(ensureTrailingSlash, op.excludeFolders),
          [queue |-> [i \in DOMAIN op.noteName |->
                        <<normalize(resolve(op.noteName[i], state).name),
                          0>>],
           visited |-> EmptyMap, visitedOrder |-> <<>>,
           missingFound |-> <<>>, linkTypes |-> EmptyMap])

RECURSIVE SumLen(_, _)
SumLen(f, S) ==
  IF S = {} THEN 0
  ELSE LET k == CHOOSE x \in S : TRUE
       IN Len(f[k]) + SumLen(f, S \ {k})

\* C30: traverse comes to an end on every graph, cycles, self-links and
\* duplicate start names included, for any maxDepth: each key is visited
\* and expanded at most once, the queue receives at most one entry per
\* start name and one per link of a visited note, every entry has a depth of
\* at most maxDepth, and no returned note has a depth above maxDepth.
C30_TraverseBounded ==
  (IsTraverse /\ res.error = <<>>) =>
    /\ res.kind = "traverse"
    /\ \A i, j \in DOMAIN TraverseRun.visitedOrder :
         i # j => TraverseRun.visitedOrder[i] # TraverseRun.visitedOrder[j]
    /\ Len(res.notes) = Len(TraverseRun.visitedOrder)
    /\ Len(TraverseRun.queue)
         <= Len(op.noteName)
              + SumLen(forward, Range(TraverseRun.visitedOrder)
                                  \cap DOMAIN forward)
    /\ \A i \in DOMAIN TraverseRun.queue :
         TraverseRun.queue[i][2] \in 0 .. op.maxDepth
    /\ \A i \in DOMAIN res.notes : res.notes[i].depth \in 0 .. op.maxDepth

\* a start name given twice and a visited note that links back to a start
\* note: entries of the queue are skipped because their key was visited
C30_Witness ==
  /\ IsTraverse
  /\ res.error = <<>>
  /\ op.maxDepth >= 2
  /\ \E i, j \in DOMAIN op.noteName :
       i # j /\ resolve(op.noteName[i], state) = resolve(op.noteName[j], state)
  /\ \E i, j \in DOMAIN res.notes :
       /\ res.notes[i].depth = 0
       /\ res.notes[j].depth = 1
       /\ normalize(res.notes[i].name)
            \in ForwardTargets(normalize(res.notes[j].name))
  /\ \E i \in DOMAIN res.notes :
       normalize(res.notes[i].name)
         \in ForwardTargets(normalize(res.notes[i].name))
  /\ Len(TraverseRun.queue) > Len(res.notes)

----------------------------------------------------------------------------

\* the readable files whose name has the key k
ReadableAs(k) ==
  {p \in Paths : disk[p].status = "file" /\ normalize(FileName(p)) = k}

\* the file of S that the scan lists last
LastScanned(S) ==
  LET at == {i \in DOMAIN ScanOrder : ScanOrder[i] \in S}
  IN ScanOrder[CHOOSE i \in at : \A j \in at : j <= i]

\* the keys that the links of the file p point to
LinkKeysOfFile(p) == {normalize(wl.name) : wl \in Range(disk[p].wikilinks)}

\* the first key in the order of notes whose name has the fuzzy form f
FirstKeyOfForm(f) ==
  LET at == {i \in DOMAIN notesOrder :
               normalizeFuzzy(notes[notesOrder[i]].name) = f}
  IN notesOrder[CHOOSE i \in at : \A j \in at : i <= j]

\* C27: when several scanned files share one normalized name, buildGraph
\* keeps only the last one in scan order: resolve of that name returns the
\* last file's note, notes has exactly one entry for the key, and forward,
\* backward and missing hold the key only for the links of the last file;
\* the fuzzy index keeps the first key registered for each fuzzy form.
C27_LastFileWins ==
  BuiltOnly =>
    /\ \A k \in {normalize(FileName(p)) : p \in Paths} :
         Cardinality(ReadableAs(k)) > 1 =>
           LET last == LastScanned(ReadableAs(k)) IN
           /\ k \in DOMAIN notes
           /\ notes[k].path = FilePath(last)
           /\ notes[k] = readNote(disk, last)
           /\ \A p \in ReadableAs(k) :
                resolve(FileName(p), state) = readNote(disk, last)
           /\ Cardinality({i \in DOMAIN notesOrder : notesOrder[i] = k}) = 1
           /\ ForwardTargets(k) = LinkKeysOfFile(last)
           /\ \A t \in DOMAIN backward :
                k \in backward[t] <=> t \in LinkKeysOfFile(last)
           /\ \A t \in DOMAIN missing :
                k \in missing[t] <=>
                  (t \in LinkKeysOfFile(last) /\ t \notin DOMAIN notes)
           /\ \A t \in LinkKeysOfFile(last) :
                /\ k \in GetSet(backward, t)
                /\ t \notin DOMAIN notes => k \in GetSet(missing, t)
    /\ DOMAIN fuzzyIndex = {normalizeFuzzy(notes[k].name) : k \in DOMAIN notes}
    /\ \A f \in DOMAIN fuzzyIndex : fuzzyIndex[f] = FirstKeyOfForm(f)

\* two readable files of one key, the first of which links to a name that
\* the last does not link to, and two keys of one fuzzy form
C27_Witness ==
  /\ BuiltOnly
  /\ \E k \in DOMAIN notes :
       /\ Cardinality(ReadableAs(k)) > 1
       /\ \E p \in ReadableAs(k) :
            LinkKeysOfFile(p) \ LinkKeysOfFile(LastScanned(ReadableAs(k)))
              # {}
  /\ \E a, b \in DOMAIN notes :
       /\ a # b
       /\ normalizeFuzzy(notes[a].name) = normalizeFuzzy(notes[b].name)

----------------------------------------------------------------------------

UnreadableFiles == {p \in Paths : disk[p].status = "unreadable"}

\* C28: a file that cannot be read during buildGraph is skipped and the
\* build succeeds: no note of notes comes from it, the graph is the one
\* built from the vault without that file, and, when no readable file has
\* its name, its key has no entry in notes, forward or the fuzzy index, is
\* no referrer in backward or missing, and the notes linking to it are its
\* referrers in missing.
C28_UnreadableSkipped ==
  BuiltOnly =>
    \A p \in UnreadableFiles :
      LET k == normalize(FileName(p)) IN
      /\ \A n \in DOMAIN notes : notes[n].path # FilePath(p)
      /\ state = buildGraph([disk EXCEPT ![p] = Absent])
      /\ ReadableAs(k) = {} =>
           /\ k \notin DOMAIN notes
           /\ k \notin DOMAIN forward
           /\ k \notin Range(notesOrder)
           /\ \A f \in DOMAIN fuzzyIndex : fuzzyIndex[f] # k
           /\ \A t \in DOMAIN backward : k \notin backward[t]
           /\ \A t \in DOMAIN missing : k \notin missing[t]
           /\ \A s \in DOMAIN notes :
                k \in LinkKeysOfFile(LastScanned(ReadableAs(s))) =>
                  s \in GetSet(missing, k)

\* an unreadable file whose name no readable file has, scanned before a
\* readable file that links to its name
C28_Witness ==
  /\ BuiltOnly
  /\ \E p \in UnreadableFiles :
       /\ ReadableAs(normalize(FileName(p))) = {}
       /\ \E q \in Paths :
            /\ q > p
            /\ disk[q].status = "file"
            /\ normalize(FileName(p)) \in LinkKeysOfFile(q)
            /\ normalize(FileName(q)) \in GetSet(missing, normalize(FileName(p)))

----------------------------------------------------------------------------

\* C29: on a built graph and with filter options whose exclude pattern is
\* valid or absent, stats agrees with the list queries run with the same
\* options: orphans is the total of orphans, missing_links the total of
\* missingNotes with type "all" and no noteNames, untagged the total of
\* findUntagged, and total_notes = tagged + untagged.
C29_StatsAgreesWithLists ==
  (op.name = "stats" /\ ~HasInvalidPattern) =>
    /\ res.value.orphans = orphans(state, op.opts).total
    /\ res.value.missing_links =
         missingNotes(state, [op.opts EXCEPT !.type = Some("all"),
                                             !.noteNames = Undefined]).total
    /\ res.value.untagged = findUntagged(state, op.opts).total
    /\ res.value.total_notes = res.value.tagged + res.value.untagged

\* stats with options that leave a note out of scope, on a graph where
\* every count is positive and a missing name has no referrer in scope
C29_Witness ==
  /\ op.name = "stats"
  /\ ~HasInvalidPattern
  /\ res.value.total_notes < Cardinality(DOMAIN notes)
  /\ res.value.orphans > 0
  /\ res.value.missing_links > 0
  /\ res.value.missing_links < Cardinality(DOMAIN missing)
  /\ res.value.untagged > 0
  /\ res.value.tagged > 0

====
